---- MODULE Spec2Model ----
(***************************************************************************)
(* The forEach kernel dispatcher of the RenderScript support driver        *)
(* (renderscript/v8/rs_support/driver/rsdBcc.cpp): rsdScriptInvokeForEach, *)
(* the worker callbacks wc_xy and wc_x, and the slice arithmetic they      *)
(* share.                                                                  *)
(*                                                                         *)
(* Threads: thread 0 is the context's command thread, the only thread that *)
(* starts a top-level dispatch; threads 1..mCount are the pool workers.    *)
(* A kernel body may itself call rsdScriptInvokeForEach (a nested          *)
(* dispatch), which then runs on the thread executing that kernel.         *)
(* Pointers are byte offsets from the base of the allocation they point    *)
(* into; a null allocation has base NULL and element stride 0. The         *)
(* uint32_t arithmetic of the source never wraps at the sizes modelled.     *)
(***************************************************************************)
EXTENDS Integers, Sequences, FiniteSets, TLC

\* ---------------------------------------------------------------- bounds
MaxWorkers == 2      \* largest worker pool (dc->mWorkers.mCount)
MaxDimX == 2         \* largest X dimension of an allocation
MaxDimY == 2         \* largest Y dimension of an allocation (0 = 1D)
ElemSize == 2        \* element size in bytes of the allocations
RowPad == 2          \* padding bytes a row stride may carry
MaxNested == 1       \* nested dispatches per top-level dispatch
MaxStart == 2        \* largest axis start of the slicing specification
MaxExtra == 2        \* claims made after the first empty one
MaxInits == 2        \* threads that call rsdScriptInit
MaxDims0 == 2        \* dims[0], the elements of an exported array variable
MaxRegs == 3         \* calls of nTransactionSetOnComplete / nTransactionSetOnCommit

\* ------------------------------------------------------- program constants
InitSliceSize == 10  \* mtls.mSliceSize = 10
SliceFactor == 4     \* dimY / (dc->mWorkers.mCount * 4)

Scripts == {1, 2}    \* script 1 is threadable, script 2 is not
NoScript == 0        \* a thread's TLS script pointer before any dispatch

rsMin(a, b) == IF a < b THEN a ELSE b

\* rsMax that returns its second argument.
rsMax_second(a, b) == b

rsMax(a, b) == IF a > b THEN a ELSE b

\* s->mHal.info.isThreadable
isThreadable(s) == s = 1

\* --------------------------------------------------------------- inputs
NoAlloc == [null |-> TRUE, dimX |-> 0, dimY |-> 0, eStride |-> 0, stride |-> 0]

\* The allocations: 1D (dimY = 0) or 2D; the rows of a 2D allocation with
\* more than one row may be padded.
Allocs ==
    {al \in {[null |-> FALSE, dimX |-> dx, dimY |-> dy, eStride |-> ElemSize,
              stride |-> ElemSize * dx + p] :
                dx \in 1..MaxDimX, dy \in 0..MaxDimY, p \in {0, RowPad}} :
        al.dimY <= 1 => al.stride = ElemSize * al.dimX}

NoCall ==
    [null |-> TRUE, xStart |-> 0, xEnd |-> 0, yStart |-> 0, yEnd |-> 0,
     zStart |-> 0, zEnd |-> 0, arrayStart |-> 0, arrayEnd |-> 0]

\* The RsScriptCall that nScriptForEachClipped builds from its arguments.
nScriptForEachClipped(xstart, xend, ystart, yend, zstart, zend) ==
    [null |-> FALSE, xStart |-> xstart, xEnd |-> xend, yStart |-> ystart,
     yEnd |-> yend, zStart |-> zstart, zEnd |-> zend, arrayStart |-> 0,
     arrayEnd |-> 0]

\* The Z bounds a clip may carry: none, or [1, 2).
ZBounds == {<<0, 0>>, <<1, 2>>}

\* The clips: none, or a clip of X, of Y, or of both axes by the same bounds,
\* as nScriptForEachClipped builds it; a clip that leaves X and Y alone may
\* carry Z bounds, and then also array bounds [1, 2) set by a native caller.
ScriptCalls ==
    {NoCall} \cup
    {c \in {nScriptForEachClipped(xs, xe, ys, ye, zb[1], zb[2]) :
               xs \in 0..MaxDimX, xe \in 0..MaxDimX,
               ys \in 0..MaxDimY, ye \in 0..MaxDimY, zb \in ZBounds} \cup
           {[nScriptForEachClipped(0, 0, 0, 0, 1, 2)
                EXCEPT !.arrayStart = 1, !.arrayEnd = 2]} :
        /\ \/ c.yStart = 0 /\ c.yEnd = 0
           \/ c.xStart = 0 /\ c.xEnd = 0
           \/ c.xStart = c.yStart /\ c.xEnd = c.yEnd
        /\ c.zEnd # 0 => c.xStart = 0 /\ c.xEnd = 0 /\ c.yStart = 0 /\ c.yEnd = 0}

\* The arguments of one rsdScriptInvokeForEach call with a kernel in the
\* slot: no allocation, aout only, or ain and aout of the same type and
\* layout.
KernelArgs ==
    {a \in {[s |-> s, ain |-> IF i THEN al ELSE NoAlloc,
             aout |-> IF o THEN al ELSE NoAlloc, sc |-> c,
             kernelNull |-> FALSE] :
               s \in Scripts, al \in Allocs, i \in BOOLEAN, o \in BOOLEAN,
               c \in ScriptCalls} :
        ~a.ain.null => ~a.aout.null}

\* The arguments of one call: those with a kernel, and some whose slot holds
\* NULL (drv->mForEachFunctions[slot] == NULL): no clip, aout only or no
\* allocation, rows unpadded.
Args ==
    KernelArgs \cup
    {[a EXCEPT !.kernelNull = TRUE] :
        a \in {b \in KernelArgs : /\ b.sc.null
                                  /\ b.ain.null
                                  /\ b.aout.stride = ElemSize * b.aout.dimX}}

\* ------------------------------------------------------ the launch struct
\* memset(&mtls, 0, sizeof(mtls))
ZeroMtls ==
    [script |-> NoScript, kernelNull |-> TRUE, hasIn |-> FALSE, hasOut |-> FALSE,
     mSliceSize |-> 0, mSliceNum |-> 0,
     eStrideIn |-> 0, eStrideOut |-> 0, yStrideIn |-> 0, yStrideOut |-> 0,
     xStart |-> 0, xEnd |-> 0, yStart |-> 0, yEnd |-> 0,
     zStart |-> 0, zEnd |-> 0, arrayStart |-> 0, arrayEnd |-> 0,
     dimX |-> 0, dimY |-> 0, dimZ |-> 0, dimArray |-> 0]

\* The allocation the dimensions are read from: ain if given, else aout.
DimSource(a) == IF ~a.ain.null THEN a.ain ELSE a.aout

\* MissingBuffer with the final else branch dropped: a null aout is used.
MissingBuffer_unchecked(a) == FALSE

\* Both allocations null: the RS_ERROR_BAD_SCRIPT exit.
MissingBuffer(a) == a.ain.null /\ a.aout.null

\* ClipAxis without the clamp of the clip's bounds to the dimension.
ClipAxis_unclamped(dim, sc_null, scStart, scEnd) ==
    IF sc_null \/ scEnd = 0
    THEN [start |-> 0, end |-> dim, empty |-> FALSE]
    ELSE [start |-> scStart, end |-> scEnd, empty |-> scStart >= scEnd]

\* ClipAxis that honours the clip's start bound when its end bound is 0.
ClipAxis_keepstart(dim, sc_null, scStart, scEnd) ==
    IF sc_null
    THEN [start |-> 0, end |-> dim, empty |-> FALSE]
    ELSE IF scEnd = 0
    THEN [start |-> rsMin(dim, scStart), end |-> dim, empty |-> scStart >= dim]
    ELSE LET st == rsMin(dim, scStart)
             en == rsMin(dim, scEnd)
         IN [start |-> st, end |-> en, empty |-> st >= en]

\* ClipAxis with the empty test start > end in place of start >= end.
ClipAxis_strict(dim, sc_null, scStart, scEnd) ==
    IF sc_null \/ scEnd = 0
    THEN [start |-> 0, end |-> dim, empty |-> FALSE]
    ELSE LET st == rsMin(dim, scStart)
             en == rsMin(dim, scEnd)
         IN [start |-> st, end |-> en, empty |-> st > en]

\* One axis of the clip: the resolved <<start, end>> and whether the
\* function returns because the clamped range is empty. rsAssert only logs.
ClipAxis(dim, sc_null, scStart, scEnd) ==
    IF sc_null \/ scEnd = 0
    THEN [start |-> 0, end |-> dim, empty |-> FALSE]
    ELSE LET st == rsMin(dim, scStart)
             en == rsMin(dim, scEnd)
         IN [start |-> st, end |-> en, empty |-> st >= en]

ClipX(a) == ClipAxis(DimSource(a).dimX, a.sc.null, a.sc.xStart, a.sc.xEnd)

ClipY(a) == ClipAxis(DimSource(a).dimY, a.sc.null, a.sc.yStart, a.sc.yEnd)

\* The clip makes the call return before any work.
EmptyRange(a) == ClipX(a).empty \/ ClipY(a).empty

\* FillMtls that takes the Z and array ranges from the clip.
FillMtls_clipz(a) ==
    [ZeroMtls EXCEPT
        !.dimX = DimSource(a).dimX,
        !.dimY = DimSource(a).dimY,
        !.dimZ = 0,
        !.xStart = ClipX(a).start,
        !.xEnd = rsMax(1, ClipX(a).end),
        !.yStart = ClipY(a).start,
        !.yEnd = rsMax(1, ClipY(a).end),
        !.zStart = a.sc.zStart,
        !.zEnd = rsMax(1, a.sc.zEnd),
        !.arrayStart = a.sc.arrayStart,
        !.arrayEnd = rsMax(1, a.sc.arrayEnd),
        !.script = a.s,
        !.kernelNull = a.kernelNull,
        !.hasIn = ~a.ain.null,
        !.hasOut = ~a.aout.null,
        !.mSliceSize = InitSliceSize,
        !.mSliceNum = 0,
        !.eStrideIn = a.ain.eStride,
        !.yStrideIn = a.ain.stride,
        !.eStrideOut = a.aout.eStride,
        !.yStrideOut = a.aout.stride]

\* The launch struct as it stands when the parallel/sequential decision is
\* taken.
FillMtls(a) ==
    [ZeroMtls EXCEPT
        !.dimX = DimSource(a).dimX,
        !.dimY = DimSource(a).dimY,
        !.dimZ = 0,
        !.xStart = ClipX(a).start,
        !.xEnd = rsMax(1, ClipX(a).end),
        !.yStart = ClipY(a).start,
        !.yEnd = rsMax(1, ClipY(a).end),
        !.zEnd = rsMax(1, ZeroMtls.zEnd),
        !.arrayEnd = rsMax(1, ZeroMtls.arrayEnd),
        !.script = a.s,
        !.kernelNull = a.kernelNull,
        !.hasIn = ~a.ain.null,
        !.hasOut = ~a.aout.null,
        !.mSliceSize = InitSliceSize,
        !.mSliceNum = 0,
        !.eStrideIn = a.ain.eStride,
        !.yStrideIn = a.ain.stride,
        !.eStrideOut = a.aout.eStride,
        !.yStrideOut = a.aout.stride]

\* ChooseParallel without the test of the re-entrancy flag.
ChooseParallel_noflag(count, s, inForEach) ==
    count > 1 /\ isThreadable(s)

\* ChooseParallel without the test of the script's threadable mark.
ChooseParallel_anyscript(count, s, inForEach) ==
    count > 1 /\ ~inForEach

\* The parallel path is chosen.
ChooseParallel(count, s, inForEach) ==
    count > 1 /\ isThreadable(s) /\ ~inForEach

\* SliceSize without the floor to 1.
SliceSize_nofloor(dim, count) == dim \div (count * SliceFactor)

\* mSliceSize of the parallel path, from the dimension of the sliced axis.
SliceSize(dim, count) ==
    LET sz == dim \div (count * SliceFactor)
    IN IF sz < 1 THEN 1 ELSE sz

\* The axis the parallel path slices: wc_xy slices Y, wc_x slices X.
SlicedAxis(m) == IF m.dimY > 1 THEN "Y" ELSE "X"

\* mSliceSize as the parallel path sets it before the launch.
LaunchSliceSize(m, count) ==
    SliceSize(IF SlicedAxis(m) = "Y" THEN m.dimY ELSE m.dimX, count)

\* android_atomic_inc that adds two.
android_atomic_inc_bytwo(v) == [prior |-> v, next |-> v + 2]

\* android_atomic_inc that returns a value read before an earlier increment.
android_atomic_inc_stale(v) ==
    [prior |-> IF v > 0 THEN v - 1 ELSE 0, next |-> v + 1]

\* android_atomic_inc(&v): the value before the increment is returned and
\* the incremented value is stored, in one indivisible step.
android_atomic_inc(v) == [prior |-> v, next |-> v + 1]

\* SliceRange without the clamp of the end to the end of the axis.
SliceRange_unclamped(axisStart, axisEnd, sliceSize, slice) ==
    LET st == axisStart + slice * sliceSize
        en == st + sliceSize
    IN <<st, en>>

\* The range a worker derives from a claimed slice index.
SliceRange(axisStart, axisEnd, sliceSize, slice) ==
    LET st == axisStart + slice * sliceSize
        en == st + sliceSize
    IN <<st, rsMin(en, axisEnd)>>

\* The value a kernel stores through its output pointer: a pure function of
\* its coordinates.
KernelValue(x, y, z, ar) == <<x, y, z, ar>>

\* ---------------------------------------------------------------- state
VARIABLES
    mCount,      \* dc->mWorkers.mCount, the size of the worker pool
    mInForEach,  \* dc->mInForEach, the re-entrancy flag of the context
    rscError,    \* the error recorded on the context by rsc->setError
    tls,         \* tls[t]: the TLS script pointer of thread t
    stack,       \* stack[t]: the activations of thread t, innermost last
    mtls,        \* mtls[d]: the MTLaunchStruct of dispatch d
    disp,        \* disp[d]: bookkeeping of dispatch d (arguments, path, ...)
    calls,       \* calls[d]: the kernel invocations of dispatch d, a bag of
                 \*   <<x, y, z, array, in offset, out offset>>
    mem,         \* mem[d]: the bytes stored through the out pointers of d
    part,        \* the slicing specification: one sliced axis being claimed
    ini,         \* rsdgInitMutex and the rsdScriptInit call of each caller
    gvar,        \* one exported variable slot and the objects it refers to
    cbw          \* the CallbackWrappers of the surface transaction bindings

vars ==
    <<mCount, mInForEach, rscError, tls, stack, mtls, disp, calls, mem, part,
      ini, gvar, cbw>>

dispVars ==
    <<mCount, mInForEach, rscError, tls, stack, mtls, disp, calls, mem,
      ini, gvar, cbw>>

\* A second thread of the client that calls into the context.
Caller2 == MaxWorkers + 1

Threads == 0..(MaxWorkers + 1)

Workers == 1..mCount

NoPart == [args |-> 0, count |-> 0, launched |-> FALSE, axis |-> "none",
           axisStart |-> 0, axisEnd |-> 0, mSliceSize |-> 0, mSliceNum |-> 0,
           ranges |-> <<>>, extra |-> 0]

Top(t) == stack[t][Len(stack[t])]

Push(t, f) == [stack EXCEPT ![t] = Append(@, f)]

Pop(t) == [stack EXCEPT ![t] = SubSeq(@, 1, Len(@) - 1)]

SetTop(t, f) == [stack EXCEPT ![t] = [@ EXCEPT ![Len(@)] = f]]

\* One more occurrence of k in the bag b.
BagAdd(b, k) ==
    IF k \in DOMAIN b
    THEN [b EXCEPT ![k] = @ + 1]
    ELSE [j \in DOMAIN b \cup {k} |-> IF j = k THEN 1 ELSE b[j]]

\* The memory m after storing v at offset o.
Store(m, o, v) == [j \in DOMAIN m \cup {o} |-> IF j = o THEN v ELSE m[j]]

NewFrame(kind, d, pc, old) ==
    [kind |-> kind, d |-> d, pc |-> pc, oldTLS |-> old,
     slice |-> 0, lo |-> 0, hi |-> 0,
     x |-> 0, y |-> 0, z |-> 0, ar |-> 0, pin |-> 0, pout |-> 0]

\* ---- rsdScriptInit: the state of one call and of the init mutex
\* The threads that each initialise a script of their own.
InitCallers == 1..MaxInits

\* A caller before its call: no DrvScript, no file, no library, no table.
IdleInit ==
    [pc |-> "idle", drv |-> FALSE, halDrv |-> FALSE, fp |-> "null",
     so |-> "null", tables |-> {}, locks |-> 0, unlocks |-> 0, ret |-> "none"]

\* rsdgInitMutex free (holder 0) and no call made.
NoInit == [mutex |-> 0, th |-> [t \in InitCallers |-> IdleInit]]

\* ---- rsdScriptSetGlobalVarWithElemDims: no slot under observation
NoVar == [pc |-> "none"]

\* ---- the surface transaction bindings: no wrapper created
NoWrappers ==
    [api |-> 0, jni |-> <<>>, ws |-> <<>>, completedInfo |-> FALSE,
     committedInfo |-> FALSE]

Init ==
    /\ mCount \in 1..MaxWorkers
    /\ mInForEach = FALSE
    /\ rscError = "none"
    /\ tls = [t \in Threads |-> NoScript]
    /\ stack = [t \in Threads |-> <<>>]
    /\ mtls = <<>>
    /\ disp = <<>>
    /\ calls = <<>>
    /\ mem = <<>>
    /\ part = NoPart
    /\ ini = NoInit
    /\ gvar = NoVar
    /\ cbw = NoWrappers

\* ------------------------------------------------- rsdScriptInvokeForEach
\* The sequential loop nest, entered at the loop test of `at`, run up to the
\* next kernel call (pc "call") or the end of the loops (pc "ret").
RECURSIVE SeqLoop(_, _, _)
SeqLoop(m, f, at) ==
    CASE at = "x" ->
           IF f.x < m.xEnd THEN [f EXCEPT !.pc = "call"]
           ELSE SeqLoop(m, [f EXCEPT !.y = @ + 1], "y")
      [] at = "y" ->
           IF f.y < m.yEnd
           THEN LET offset == m.dimX * m.dimY * m.dimZ * f.ar +
                              m.dimX * m.dimY * f.z + m.dimX * f.y
                IN SeqLoop(m, [f EXCEPT !.pout = m.eStrideOut * offset,
                                        !.pin = m.eStrideIn * offset,
                                        !.x = m.xStart], "x")
           ELSE SeqLoop(m, [f EXCEPT !.z = @ + 1], "z")
      [] at = "z" ->
           IF f.z < m.zEnd THEN SeqLoop(m, [f EXCEPT !.y = m.yStart], "y")
           ELSE SeqLoop(m, [f EXCEPT !.ar = @ + 1], "ar")
      [] at = "ar" ->
           IF f.ar < m.arrayEnd THEN SeqLoop(m, [f EXCEPT !.z = m.zStart], "z")
           ELSE [f EXCEPT !.pc = "ret"]

\* The call on thread t up to the choice of the path: one of the two early
\* returns, or the launch struct is filled in, the TLS script is set and
\* the flag is tested; the sequential path enters its loop nest. stk, cl
\* and mm are the stacks, invocations and memories at the call.
rsdScriptInvokeForEach(t, a, stk, cl, mm) ==
    LET d == Len(mtls) + 1
        early == MissingBuffer(a) \/ EmptyRange(a)
        m == IF early THEN ZeroMtls ELSE FillMtls(a)
        par == ChooseParallel(mCount, a.s, mInForEach)
        info == [args |-> a,
                 path |-> IF MissingBuffer(a) THEN "error"
                          ELSE IF EmptyRange(a) THEN "empty"
                          ELSE IF ~par THEN "seq"
                          ELSE IF SlicedAxis(m) = "Y" THEN "wc_xy" ELSE "wc_x",
                 done |-> early,
                 caller |-> t,
                 parent |-> IF stack[t] = <<>> THEN 0 ELSE Top(t).d,
                 sawFlag |-> mInForEach,
                 emptyClaims |-> {}]
        f0 == NewFrame("foreach", d, "launch", tls[t])
        f == IF par THEN f0 ELSE SeqLoop(m, [f0 EXCEPT !.ar = m.arrayStart], "ar")
    IN /\ mtls' = Append(mtls, m)
       /\ disp' = Append(disp, info)
       /\ calls' = Append(cl, <<>>)
       /\ mem' = Append(mm, <<>>)
       /\ rscError' = IF MissingBuffer(a) THEN "RS_ERROR_BAD_SCRIPT"
                      ELSE rscError
       /\ tls' = IF early THEN tls ELSE [tls EXCEPT ![t] = a.s]
       /\ stack' = IF early THEN stk ELSE [stk EXCEPT ![t] = Append(@, f)]
       /\ UNCHANGED <<mCount, mInForEach, part, ini, gvar, cbw>>

\* rsdLaunchThreads, first half: every worker of the pool starts the
\* callback on the launch struct.
rsdLaunchThreads_start(d) ==
    [w \in Threads |->
        IF w \in Workers THEN <<NewFrame("worker", d, "claim", NoScript)>>
        ELSE stack[w]]

\* rsdLaunchThreads, second half: it returns when every worker has returned
\* from the callback.
rsdLaunchThreads_done == \A w \in Workers : stack[w] = <<>>

\* The parallel path up to the launch: the flag is set, the slice size is
\* computed from the dimension of the sliced axis, the workers are started.
ForEachLaunch(t) ==
    /\ stack[t] # <<>>
    /\ Top(t).kind = "foreach"
    /\ Top(t).pc = "launch"
    /\ \A w \in Workers : stack[w] = <<>>
    /\ LET f == Top(t)
           d == f.d
           m == mtls[d]
       IN /\ mInForEach' = TRUE
          /\ mtls' = [mtls EXCEPT ![d].mSliceSize = LaunchSliceSize(m, mCount)]
          /\ stack' = [rsdLaunchThreads_start(d) EXCEPT
                          ![t] = SetTop(t, [f EXCEPT !.pc = "wait"])[t]]
    /\ UNCHANGED <<mCount, rscError, tls, disp, calls, mem, part, ini, gvar, cbw>>

\* ForEachJoin that leaves the flag set.
ForEachJoin_keepflag(t) ==
    /\ stack[t] # <<>>
    /\ Top(t).kind = "foreach"
    /\ Top(t).pc = "wait"
    /\ rsdLaunchThreads_done
    /\ mInForEach' = mInForEach
    /\ stack' = SetTop(t, [Top(t) EXCEPT !.pc = "ret"])
    /\ UNCHANGED <<mCount, rscError, tls, mtls, disp, calls, mem, part, ini, gvar, cbw>>

\* ForEachJoin that goes on without waiting for the workers.
ForEachJoin_nowait(t) ==
    /\ stack[t] # <<>>
    /\ Top(t).kind = "foreach"
    /\ Top(t).pc = "wait"
    /\ mInForEach' = FALSE
    /\ stack' = SetTop(t, [Top(t) EXCEPT !.pc = "ret"])
    /\ UNCHANGED <<mCount, rscError, tls, mtls, disp, calls, mem, part, ini, gvar, cbw>>

\* rsdLaunchThreads returns and the flag is cleared.
ForEachJoin(t) ==
    /\ stack[t] # <<>>
    /\ Top(t).kind = "foreach"
    /\ Top(t).pc = "wait"
    /\ rsdLaunchThreads_done
    /\ mInForEach' = FALSE
    /\ stack' = SetTop(t, [Top(t) EXCEPT !.pc = "ret"])
    /\ UNCHANGED <<mCount, rscError, tls, mtls, disp, calls, mem, part, ini, gvar, cbw>>

\* setTLS(oldTLS) and the return to the caller.
\* ForEachReturn without the closing setTLS(oldTLS).
ForEachReturn_norestore(t) ==
    /\ stack[t] # <<>>
    /\ Top(t).kind = "foreach"
    /\ Top(t).pc = "ret"
    /\ tls' = tls
    /\ disp' = [disp EXCEPT ![Top(t).d].done = TRUE]
    /\ stack' = Pop(t)
    /\ UNCHANGED <<mCount, mInForEach, rscError, mtls, calls, mem, part, ini, gvar, cbw>>

ForEachReturn(t) ==
    /\ stack[t] # <<>>
    /\ Top(t).kind = "foreach"
    /\ Top(t).pc = "ret"
    /\ tls' = [tls EXCEPT ![t] = Top(t).oldTLS]
    /\ disp' = [disp EXCEPT ![Top(t).d].done = TRUE]
    /\ stack' = Pop(t)
    /\ UNCHANGED <<mCount, mInForEach, rscError, mtls, calls, mem, part, ini, gvar, cbw>>

\* The invocations and the memories after the innermost activation of
\* thread t has called bare_fn(p.in, p.out, p.usr, c): the invocation is
\* recorded, and the kernel stores its value through the out pointer when
\* there is an out allocation.
CallsAfter(t, c) ==
    [calls EXCEPT ![Top(t).d] =
        BagAdd(@, <<c[1], c[2], c[3], c[4], Top(t).pin, Top(t).pout>>)]

MemAfter(t, c) ==
    IF mtls[Top(t).d].hasOut
    THEN [mem EXCEPT ![Top(t).d] =
             Store(@, Top(t).pout, KernelValue(c[1], c[2], c[3], c[4]))]
    ELSE mem

bare_fn(t, x, y, z, ar) ==
    /\ ~mtls[Top(t).d].kernelNull
    /\ calls' = CallsAfter(t, <<x, y, z, ar>>)
    /\ mem' = MemAfter(t, <<x, y, z, ar>>)

\* SeqAdvance that steps x by two.
SeqAdvance_bytwo(m, f) ==
    SeqLoop(m, [f EXCEPT !.pin = @ + m.eStrideIn, !.pout = @ + m.eStrideOut,
                         !.x = @ + 2], "x")

\* After a kernel call of the sequential loop nest: the pointers advance
\* and the loops continue.
SeqAdvance(m, f) ==
    SeqLoop(m, [f EXCEPT !.pin = @ + m.eStrideIn, !.pout = @ + m.eStrideOut,
                         !.x = @ + 1], "x")

\* One kernel call of the sequential loop nest, the kernel running to its
\* return.
seq_call(t) ==
    /\ stack[t] # <<>>
    /\ Top(t).kind = "foreach"
    /\ Top(t).pc = "call"
    /\ bare_fn(t, Top(t).x, Top(t).y, Top(t).z, Top(t).ar)
    /\ stack' = SetTop(t, SeqAdvance(mtls[Top(t).d], Top(t)))
    /\ UNCHANGED <<mCount, mInForEach, rscError, tls, mtls, disp, part, ini, gvar, cbw>>

\* ------------------------------------------------------------------ wc_xy
\* The rows of a claimed slice, entered at the loop test of `at`, run up to
\* the next kernel call (pc "call") or the next claim (pc "claim").
RECURSIVE WcXyLoop(_, _, _)
WcXyLoop(m, f, at) ==
    CASE at = "x" ->
           IF f.x < m.xEnd THEN [f EXCEPT !.pc = "call"]
           ELSE WcXyLoop(m, [f EXCEPT !.y = @ + 1], "y")
      [] at = "y" ->
           IF f.y < f.hi
           THEN WcXyLoop(m, [f EXCEPT !.pout = (m.yStrideOut * f.y),
                                      !.pin = (m.yStrideIn * f.y),
                                      !.x = m.xStart], "x")
           ELSE [f EXCEPT !.pc = "claim"]

\* ClaimedMtls that also grows the slice size.
ClaimedMtls_resize(m) ==
    [m EXCEPT !.mSliceNum = android_atomic_inc(m.mSliceNum).next,
              !.mSliceSize = @ + 1]

\* The launch struct after a worker's claim: only the slice counter is
\* written.
ClaimedMtls(m) ==
    [m EXCEPT !.mSliceNum = android_atomic_inc(m.mSliceNum).next]

\* A worker is at pc in the callback cbk.
WorkerAt(w, cbk, pc) ==
    /\ w \in Workers
    /\ stack[w] # <<>>
    /\ Top(w).kind = "worker"
    /\ Top(w).pc = pc
    /\ disp[Top(w).d].path = cbk

\* android_atomic_inc on mSliceNum and the range of the claimed slice; an
\* empty range ends the callback.
wc_xy_claim(w) ==
    /\ WorkerAt(w, "wc_xy", "claim")
    /\ LET f == Top(w)
           d == f.d
           m == mtls[d]
           slice == android_atomic_inc(m.mSliceNum).prior
           r == SliceRange(m.yStart, m.yEnd, m.mSliceSize, slice)
       IN /\ mtls' = [mtls EXCEPT ![d] = ClaimedMtls(m)]
          /\ IF r[2] <= r[1]
             THEN /\ stack' = Pop(w)
                  /\ disp' = [disp EXCEPT ![d].emptyClaims = @ \cup {w}]
             ELSE /\ stack' = SetTop(w, WcXyLoop(m, [f EXCEPT !.slice = slice,
                                                      !.lo = r[1], !.hi = r[2],
                                                      !.y = r[1]], "y"))
                  /\ disp' = disp
    /\ UNCHANGED <<mCount, mInForEach, rscError, tls, calls, mem, part, ini, gvar, cbw>>

\* After a kernel call of wc_xy: the pointers advance and the loops continue.
WcXyAdvance(m, f) ==
    WcXyLoop(m, [f EXCEPT !.pin = @ + m.eStrideIn, !.pout = @ + m.eStrideOut,
                          !.x = @ + 1], "x")

\* bare_fn(p.in, p.out, p.usr, x, p.y, 0, 0), the kernel running to its
\* return.
wc_xy_call(w) ==
    /\ WorkerAt(w, "wc_xy", "call")
    /\ bare_fn(w, Top(w).x, Top(w).y, 0, 0)
    /\ stack' = SetTop(w, WcXyAdvance(mtls[Top(w).d], Top(w)))
    /\ UNCHANGED <<mCount, mInForEach, rscError, tls, mtls, disp, part, ini, gvar, cbw>>

\* ------------------------------------------------------------------- wc_x
\* WcXLoop that does not go back to claim the next slice when the x loop ends.
WcXLoop_noclaim(m, f) ==
    IF f.x < m.xEnd THEN [f EXCEPT !.pc = "call"] ELSE [f EXCEPT !.pc = "end"]

\* The x loop of a claimed slice: its bounds are those of the launch struct.
WcXLoop(m, f) ==
    IF f.x < m.xEnd THEN [f EXCEPT !.pc = "call"] ELSE [f EXCEPT !.pc = "claim"]

\* android_atomic_inc on mSliceNum and the range of the claimed slice; an
\* empty range ends the callback. The pointers start at the slice's xStart.
wc_x_claim(w) ==
    /\ WorkerAt(w, "wc_x", "claim")
    /\ LET f == Top(w)
           d == f.d
           m == mtls[d]
           slice == android_atomic_inc(m.mSliceNum).prior
           r == SliceRange(m.xStart, m.xEnd, m.mSliceSize, slice)
       IN /\ mtls' = [mtls EXCEPT ![d] = ClaimedMtls(m)]
          /\ IF r[2] <= r[1]
             THEN /\ stack' = Pop(w)
                  /\ disp' = [disp EXCEPT ![d].emptyClaims = @ \cup {w}]
             ELSE /\ stack' = SetTop(w, WcXLoop(m, [f EXCEPT !.slice = slice,
                                                     !.lo = r[1], !.hi = r[2],
                                                     !.pout = (m.eStrideOut * r[1]),
                                                     !.pin = (m.eStrideIn * r[1]),
                                                     !.x = m.xStart]))
                  /\ disp' = disp
    /\ UNCHANGED <<mCount, mInForEach, rscError, tls, calls, mem, part, ini, gvar, cbw>>

\* After a kernel call of wc_x: the pointers advance and the x loop continues.
WcXAdvance(m, f) ==
    WcXLoop(m, [f EXCEPT !.pin = @ + m.eStrideIn, !.pout = @ + m.eStrideOut,
                         !.x = @ + 1])

\* bare_fn(p.in, p.out, p.usr, x, 0, 0, 0), the kernel running to its return.
wc_x_call(w) ==
    /\ WorkerAt(w, "wc_x", "call")
    /\ bare_fn(w, Top(w).x, 0, 0, 0)
    /\ stack' = SetTop(w, WcXAdvance(mtls[Top(w).d], Top(w)))
    /\ UNCHANGED <<mCount, mInForEach, rscError, tls, mtls, disp, part, ini, gvar, cbw>>

\* ------------------------------------------------- kernels that dispatch
\* The coordinates the kernel call at hand passes, by the path of the
\* dispatch.
KernelCoords(path, f) ==
    CASE path = "seq" -> <<f.x, f.y, f.z, f.ar>>
      [] path = "wc_xy" -> <<f.x, f.y, 0, 0>>
      [] path = "wc_x" -> <<f.x, 0, 0, 0>>

\* The kernel body that dispatched returns: the pointers advance and the
\* loops continue.
kernel_ret(t) ==
    /\ stack[t] # <<>>
    /\ Top(t).pc = "inkernel"
    /\ LET f == Top(t)
           m == mtls[f.d]
           path == disp[f.d].path
       IN stack' = SetTop(t, CASE path = "seq" -> SeqAdvance(m, f)
                               [] path = "wc_xy" -> WcXyAdvance(m, f)
                               [] path = "wc_x" -> WcXAdvance(m, f))
    /\ UNCHANGED <<mCount, mInForEach, rscError, tls, mtls, disp, calls, mem, part, ini, gvar, cbw>>

\* The kernel call at hand when mtls.kernel is NULL: the call through the
\* null pointer is undefined; the thread faults there, or the call comes
\* back having run no kernel and the loops continue.
null_call(t) ==
    /\ stack[t] # <<>>
    /\ Top(t).pc = "call"
    /\ mtls[Top(t).d].kernelNull
    /\ LET f == Top(t)
           m == mtls[f.d]
           path == disp[f.d].path
       IN \/ stack' = SetTop(t, [f EXCEPT !.pc = "fault"])
          \/ stack' = SetTop(t, CASE path = "seq" -> SeqAdvance(m, f)
                                  [] path = "wc_xy" -> WcXyAdvance(m, f)
                                  [] path = "wc_x" -> WcXAdvance(m, f))
    /\ UNCHANGED <<mCount, mInForEach, rscError, tls, mtls, disp, calls, mem, part, ini, gvar, cbw>>

\* ---------------------------------------------------------- specification
\* A dispatch issued by the command thread between two commands.
TopLevelCall(a) ==
    /\ stack[0] = <<>>
    /\ mtls = <<>>
    /\ rsdScriptInvokeForEach(0, a, stack, calls, mem)

\* The kernel call at hand enters a kernel body that dispatches: the
\* invocation is made, and inside it the thread calls
\* rsdScriptInvokeForEach; the activation stays in the kernel until
\* kernel_ret.
NestedCall(t, a) ==
    /\ stack[t] # <<>>
    /\ Top(t).pc = "call"
    /\ ~mtls[Top(t).d].kernelNull
    /\ Len(mtls) < 1 + MaxNested
    /\ LET c == KernelCoords(disp[Top(t).d].path, Top(t))
       IN rsdScriptInvokeForEach(t, a,
              SetTop(t, [Top(t) EXCEPT !.pc = "inkernel"]),
              CallsAfter(t, c), MemAfter(t, c))

\* The command thread is done with a command: the launch structs of the
\* finished dispatch are gone and its allocations are no longer observed.
NextCommand ==
    /\ \A t \in Threads : stack[t] = <<>>
    /\ mtls # <<>>
    /\ mtls' = <<>>
    /\ disp' = <<>>
    /\ calls' = <<>>
    /\ mem' = <<>>
    /\ UNCHANGED <<mCount, mInForEach, rscError, tls, stack, part, ini, gvar, cbw>>

\* The steps of the dispatches in flight, every kernel running to its return.
Steps ==
    \/ \E t \in Threads : ForEachLaunch(t)
    \/ \E t \in Threads : ForEachJoin(t)
    \/ \E t \in Threads : ForEachReturn(t)
    \/ \E t \in Threads : seq_call(t)
    \/ \E w \in Threads : wc_xy_claim(w)
    \/ \E w \in Threads : wc_xy_call(w)
    \/ \E w \in Threads : wc_x_claim(w)
    \/ \E w \in Threads : wc_x_call(w)
    \/ NextCommand

\* Top-level dispatches only, over all the arguments.
Next ==
    \/ (stack[0] = <<>> /\ mtls = <<>> /\ \E a \in Args : TopLevelCall(a))
    \/ Steps
    \/ \E t \in Threads : null_call(t)

Spec == Init /\ [][Next]_vars

\* The arguments of the dispatches when kernels dispatch too: no allocation
\* or a small aout, no clip or the empty clip [1, 1) of X.
SmallArgs ==
    {a \in KernelArgs :
        /\ a.ain.null
        /\ \/ a.aout.null
           \/ a.aout.dimX = 2 /\ a.aout.dimY = 0
           \/ a.aout.dimX = 1 /\ a.aout.dimY = 2 /\ a.aout.stride = ElemSize
        /\ a.sc.null \/ (a.sc.yEnd = 0 /\ a.sc.yStart = 0
                         /\ a.sc.xStart = 1 /\ a.sc.xEnd = 1
                         /\ a.aout.dimX = 2)}

\* Top-level and nested dispatches.
NextNested ==
    \/ (stack[0] = <<>> /\ mtls = <<>> /\ \E a \in SmallArgs : TopLevelCall(a))
    \/ \E t \in Threads :
          (stack[t] # <<>> /\ \E a \in SmallArgs : NestedCall(t, a))
    \/ \E t \in Threads : kernel_ret(t)
    \/ Steps

SpecNested == Init /\ [][NextNested]_vars

\* ------------------------------------------- two threads that dispatch
\* dc->mInForEach = true, a step of its own after the test of the flag.
ForEachSetFlag(t) ==
    /\ stack[t] # <<>>
    /\ Top(t).kind = "foreach"
    /\ Top(t).pc = "launch"
    /\ mInForEach' = TRUE
    /\ stack' = SetTop(t, [Top(t) EXCEPT !.pc = "flagset"])
    /\ UNCHANGED <<mCount, rscError, tls, mtls, disp, calls, mem, part, ini, gvar, cbw>>

\* The slice size is computed and rsdLaunchThreads starts the workers, once
\* the pool is idle.
ForEachStart(t) ==
    /\ stack[t] # <<>>
    /\ Top(t).kind = "foreach"
    /\ Top(t).pc = "flagset"
    /\ \A w \in Workers : stack[w] = <<>>
    /\ LET f == Top(t)
           d == f.d
       IN /\ mtls' = [mtls EXCEPT
                         ![d].mSliceSize = LaunchSliceSize(mtls[d], mCount)]
          /\ stack' = [rsdLaunchThreads_start(d) EXCEPT
                          ![t] = SetTop(t, [f EXCEPT !.pc = "wait"])[t]]
    /\ UNCHANGED <<mCount, mInForEach, rscError, tls, disp, calls, mem, part, ini, gvar, cbw>>

\* A dispatch issued by the command thread or by the second thread, each
\* once per command and neither waiting for the other.
ConcurrentCall(t, a) ==
    /\ t \in {0, Caller2}
    /\ stack[t] = <<>>
    /\ \A d \in 1..Len(disp) : disp[d].caller # t
    /\ rsdScriptInvokeForEach(t, a, stack, calls, mem)

NextTwo ==
    \/ \E t \in {0, Caller2} :
          (stack[t] = <<>> /\ \E a \in SmallArgs : ConcurrentCall(t, a))
    \/ \E t \in Threads : ForEachSetFlag(t)
    \/ \E t \in Threads : ForEachStart(t)
    \/ \E t \in Threads : ForEachJoin(t)
    \/ \E t \in Threads : ForEachReturn(t)
    \/ \E t \in Threads : seq_call(t)
    \/ \E w \in Threads : wc_xy_claim(w)
    \/ \E w \in Threads : wc_xy_call(w)
    \/ \E w \in Threads : wc_x_claim(w)
    \/ \E w \in Threads : wc_x_call(w)
    \/ NextCommand

SpecTwo == Init /\ [][NextTwo]_vars

\* ------------------------------------------------ the slicing specification
\* The slicing of a parallel dispatch on its own: the launch struct of a
\* call that reaches the launch, its slice size, and the slice counter
\* claimed again and again. The dimensions go up to sizes that make slices
\* of more than one cell.
SliceExtents == {0, 1, 2, 1000}

SliceWorkers == {2, 3, 8}

SliceAllocs ==
    {[null |-> FALSE, dimX |-> dx, dimY |-> dy, eStride |-> ElemSize,
      stride |-> ElemSize * dx] : dx \in SliceExtents \ {0}, dy \in SliceExtents}

\* No clip, or a clip of one axis: a start and a length.
SliceCalls ==
    {NoCall} \cup
    {[NoCall EXCEPT !.null = FALSE, !.xStart = st, !.xEnd = st + len] :
        st \in 0..MaxStart, len \in SliceExtents \ {0}} \cup
    {[NoCall EXCEPT !.null = FALSE, !.yStart = st, !.yEnd = st + len] :
        st \in 0..MaxStart, len \in SliceExtents \ {0}}

\* The calls of the threadable script that reach the launch.
SliceArgs ==
    {a \in {[s |-> 1, ain |-> NoAlloc, aout |-> al, sc |-> c,
             kernelNull |-> FALSE] :
               al \in SliceAllocs, c \in SliceCalls} :
        ~MissingBuffer(a) /\ ~EmptyRange(a)}

InitSlice ==
    /\ mCount = 1
    /\ mInForEach = FALSE
    /\ rscError = "none"
    /\ tls = [t \in Threads |-> NoScript]
    /\ stack = [t \in Threads |-> <<>>]
    /\ mtls = <<>>
    /\ disp = <<>>
    /\ calls = <<>>
    /\ mem = <<>>
    /\ ini = NoInit
    /\ gvar = NoVar
    /\ cbw = NoWrappers
    /\ \E a \in SliceArgs, w \in SliceWorkers :
          LET m == FillMtls(a)
              y == SlicedAxis(m) = "Y"
          IN part = [NoPart EXCEPT
                        !.args = a, !.count = w, !.axis = SlicedAxis(m),
                        !.axisStart = IF y THEN m.yStart ELSE m.xStart,
                        !.axisEnd = IF y THEN m.yEnd ELSE m.xEnd,
                        !.mSliceSize = m.mSliceSize]

\* The slice size is set and the workers are launched.
sliceLaunch ==
    /\ part # NoPart
    /\ ~part.launched
    /\ part' = [part EXCEPT
                   !.mSliceSize = LaunchSliceSize(FillMtls(part.args), part.count),
                   !.launched = TRUE]
    /\ UNCHANGED dispVars

\* One claim: the counter is post-incremented and the range of the claimed
\* slice is derived from its prior value.
claimNextSlice ==
    /\ part.launched
    /\ part.extra < MaxExtra
    /\ LET r == SliceRange(part.axisStart, part.axisEnd, part.mSliceSize,
                           android_atomic_inc(part.mSliceNum).prior)
       IN part' = [part EXCEPT
                      !.mSliceNum = android_atomic_inc(part.mSliceNum).next,
                      !.ranges = Append(@, r),
                      !.extra = IF r[2] <= r[1] \/ part.extra > 0
                                THEN @ + 1 ELSE 0]
    /\ UNCHANGED dispVars

NextSlice == sliceLaunch \/ claimNextSlice

SpecSlice == InitSlice /\ [][NextSlice]_vars

\* ------------------------------------------------ the fair specification
\* The steps thread t takes by itself: the dispatcher's on the calling
\* thread, the callbacks' on a worker.
ThreadStep(t) ==
    \/ ForEachLaunch(t)
    \/ ForEachJoin(t)
    \/ ForEachReturn(t)
    \/ seq_call(t)
    \/ wc_xy_claim(t)
    \/ wc_xy_call(t)
    \/ wc_x_claim(t)
    \/ wc_x_call(t)

\* The arguments of the fair specification: the threadable script, aout
\* only, rows unpadded, no clip or a clip of one axis that starts above 0.
LiveArgs ==
    {a \in KernelArgs :
        /\ isThreadable(a.s)
        /\ a.ain.null /\ ~a.aout.null
        /\ a.aout.stride = ElemSize * a.aout.dimX
        /\ \/ a.sc.null
           \/ a.sc.yStart = 0 /\ a.sc.yEnd = 0 /\ a.sc.xStart > 0
           \/ a.sc.xStart = 0 /\ a.sc.xEnd = 0 /\ a.sc.yStart > 0}

\* Either the context with no dispatch yet, or one sliced axis to claim.
InitLive == Init \/ InitSlice

NextLive ==
    \/ (stack[0] = <<>> /\ mtls = <<>> /\ part = NoPart
          /\ \E a \in LiveArgs : TopLevelCall(a))
    \/ \E t \in Threads : ThreadStep(t)
    \/ NextCommand
    \/ sliceLaunch
    \/ claimNextSlice

\* Every thread that can take a step eventually takes one (the scheduler is
\* fair and a kernel body returns), and so does the claimer of the sliced
\* axis.
SpecLive ==
    /\ InitLive
    /\ [][NextLive]_vars
    /\ \A t \in Threads : WF_vars(ThreadStep(t))
    /\ WF_vars(sliceLaunch \/ claimNextSlice)

\* ------------------------------------------------------------- properties
Dispatches == 1..Len(disp)

\* The dispatch took a parallel path.
Par(d) == disp[d].path \in {"wc_xy", "wc_x"}

\* The dispatch took a path that invokes the kernel.
Ran(d) == disp[d].path \in {"seq", "wc_xy", "wc_x"}

\* The frames of all threads.
Frames == UNION {{stack[t][i] : i \in 1..Len(stack[t])} : t \in Threads}

RECURSIVE SumBag(_, _)
SumBag(b, S) ==
    IF S = {} THEN 0
    ELSE LET k == CHOOSE j \in S : TRUE
         IN b[k] + SumBag(b, S \ {k})

\* How often dispatch d invoked the kernel on coordinate c.
CoordCount(d, c) ==
    SumBag(calls[d], {k \in DOMAIN calls[d] : <<k[1], k[2], k[3], k[4]>> = c})

\* How often dispatch d invoked the kernel with out pointer o.
OutCount(d, o) ==
    SumBag(calls[d], {k \in DOMAIN calls[d] : k[6] = o})

\* The coordinates dispatch d invoked the kernel on.
Visited(d) == {<<k[1], k[2], k[3], k[4]>> : k \in DOMAIN calls[d]}

\* The clamped domain of a launch struct.
ClampedDomain(m) ==
    {<<x, y, z, ar>> : x \in m.xStart..(m.xEnd - 1), y \in m.yStart..(m.yEnd - 1),
                       z \in m.zStart..(m.zEnd - 1),
                       ar \in m.arrayStart..(m.arrayEnd - 1)}

\* The out offset the sequential loop nest hands to the kernel at c.
SeqOutOf(m, c) ==
    m.eStrideOut * (m.dimX * m.dimY * m.dimZ * c[4] + m.dimX * m.dimY * c[3]
                    + m.dimX * c[2])
    + m.eStrideOut * (c[1] - m.xStart)

\* The output buffer the sequential loop nest leaves for a launch struct.
SeqImage(m) ==
    [o \in {SeqOutOf(m, c) : c \in ClampedDomain(m)} |->
        LET c == CHOOSE e \in ClampedDomain(m) : SeqOutOf(m, e) = o
        IN KernelValue(c[1], c[2], c[3], c[4])]

\* The sequential path leaves SeqImage.
SeqImageIsSequential ==
    \A d \in Dispatches :
        (disp[d].path = "seq" /\ disp[d].done /\ mtls[d].hasOut)
            => mem[d] = SeqImage(mtls[d])

\* C1: every dispatch of a kernel that ran to its return, sequential or
\* parallel, has invoked the kernel exactly once on every tuple of its
\* clamped domain and on no other tuple.
C1_Coverage ==
    \A d \in Dispatches :
        (Ran(d) /\ disp[d].done /\ ~disp[d].args.kernelNull) =>
            /\ Visited(d) = ClampedDomain(mtls[d])
            /\ \A c \in Visited(d) : CoordCount(d, c) = 1

\* C2: in a parallel dispatch with more than one worker no coordinate and
\* no output address is handed to the kernel more than once, at any moment
\* of any interleaving.
C2_ExactlyOnce ==
    \A d \in Dispatches :
        (Par(d) /\ mCount > 1) =>
            /\ \A c \in Visited(d) : CoordCount(d, c) = 1
            /\ mtls[d].hasOut => \A k \in DOMAIN calls[d] : OutCount(d, k[6]) = 1

\* C7: a parallel dispatch (at least two workers) of a kernel that stores a
\* pure function of its coordinates leaves the output buffer the sequential
\* path leaves for the same arguments.
C7_SeqParEquivalent ==
    \A d \in Dispatches :
        (Par(d) /\ disp[d].done /\ mtls[d].hasOut /\ ~disp[d].args.kernelNull)
            => mem[d] = SeqImage(mtls[d])

\* The cells of a claimed range <<start, end>>.
Cells(r) == r[1]..(r[2] - 1)

\* The index of the first empty range claimed so far, or one past the last.
FirstEmpty ==
    LET E == {i \in 1..Len(part.ranges) : Cells(part.ranges[i]) = {}}
    IN IF E = {} THEN Len(part.ranges) + 1
       ELSE CHOOSE i \in E : \A j \in E : i <= j

HasBuffer(a) == ~(a.ain.null /\ a.aout.null)

\* The clip has xStart == xEnd or yStart == yEnd.
EqualClip(a) ==
    ~a.sc.null /\ (a.sc.xStart = a.sc.xEnd \/ a.sc.yStart = a.sc.yEnd)

\* The clip has xStart == xEnd > 0 or yStart == yEnd > 0.
EqualClipPositive(a) ==
    /\ ~a.sc.null
    /\ \/ a.sc.xStart = a.sc.xEnd /\ a.sc.xEnd > 0
       \/ a.sc.yStart = a.sc.yEnd /\ a.sc.yEnd > 0

\* Dispatch d has no activation on any thread.
NoFrame(d) == \A f \in Frames : f.d # d

C5_MissingBuffer ==
    /\ [][LET d == Len(disp')
          IN (Len(disp') = Len(disp) + 1 /\ ~HasBuffer(disp'[d].args))
             => /\ rscError' = "RS_ERROR_BAD_SCRIPT"
                /\ disp'[d].done
                /\ calls'[d] = <<>>
                /\ \A t \in Threads : Len(stack'[t]) = Len(stack[t])
                /\ mInForEach' = mInForEach]_vars
    /\ [](\A d \in Dispatches :
            ~HasBuffer(disp[d].args) =>
                calls[d] = <<>> /\ NoFrame(d) /\ rscError = "RS_ERROR_BAD_SCRIPT")

\* C5 witness: a kernel running under a parallel dispatch called with both
\* allocations absent; the call has returned, the flag is still set.
C5_Witness ==
    \E d \in Dispatches :
        /\ ~HasBuffer(disp[d].args)
        /\ disp[d].done
        /\ disp[d].parent # 0
        /\ mInForEach
        /\ rscError = "RS_ERROR_BAD_SCRIPT"

\* Dispatch d was called from a kernel body that runs under a parallel
\* dispatch.
RECURSIVE UnderParallel(_)
UnderParallel(d) ==
    LET p == disp[d].parent
    IN p # 0 /\ (Par(p) \/ UnderParallel(p))

\* Dispatch d is between setting and clearing the flag.
InParallelSection(d) ==
    \E f \in Frames : f.d = d /\ f.kind = "foreach" /\ f.pc = "wait"

\* C6: a dispatch called from a kernel body under a parallel dispatch never
\* takes a parallel path and never has workers, and as long as the outer
\* dispatch is in its parallel section the flag stays set.
C6_ReentrancyDowngrade ==
    /\ \A d \in Dispatches :
          UnderParallel(d) =>
              /\ ~Par(d)
              /\ \A f \in Frames : f.d = d => f.kind = "foreach" /\ f.pc # "wait"
    /\ \A d \in Dispatches : InParallelSection(d) => mInForEach

\* C6 witness: a threadable script was dispatched from a kernel under a
\* parallel dispatch, ran sequentially and returned; the outer dispatch is
\* still in its parallel section.
C6_Witness ==
    \E d \in Dispatches :
        /\ UnderParallel(d)
        /\ isThreadable(disp[d].args.s)
        /\ disp[d].path = "seq"
        /\ disp[d].done
        /\ calls[d] # <<>>
        /\ InParallelSection(disp[d].parent)

\* C8: a dispatch is on a parallel path exactly when, at its decision, the
\* pool had more than one worker, the script was threadable and the flag
\* was clear; otherwise its loop nest runs on the calling thread. Only
\* parallel dispatches have workers.
C8_ParallelDecision ==
    /\ \A d \in Dispatches :
          Ran(d) => (Par(d) <=> (mCount > 1 /\ isThreadable(disp[d].args.s)
                                   /\ ~disp[d].sawFlag))
    /\ \A t \in Threads : \A i \in 1..Len(stack[t]) :
          LET f == stack[t][i]
          IN /\ (f.kind = "foreach" /\ f.pc \in {"call", "inkernel"})
                    => disp[f.d].path = "seq" /\ disp[f.d].caller = t
             /\ f.kind = "worker" => Par(f.d) /\ t \in Workers
             /\ (f.kind = "foreach" /\ f.pc \in {"launch", "wait"}) => Par(f.d)

\* C8 witness: with more than one worker, a threadable script is in the
\* middle of its sequential loop nest on a worker thread, because the flag
\* was set at its decision by the parallel dispatch around it.
C8_Witness ==
    \E d \in Dispatches :
        /\ mCount > 1
        /\ isThreadable(disp[d].args.s)
        /\ disp[d].path = "seq"
        /\ disp[d].sawFlag
        /\ calls[d] # <<>>
        /\ \E f \in Frames : f.d = d /\ f.kind = "foreach" /\ f.pc = "call"
        /\ disp[d].caller \in Workers
        /\ Par(disp[d].parent)

\* C9: the flag is set exactly while some dispatch is in its parallel
\* section; it changes only when a dispatch enters or leaves that section,
\* and it is clear whenever every dispatch has returned.
C9_FlagLifecycle ==
    /\ [](mInForEach <=> \E d \in Dispatches : InParallelSection(d))
    /\ []((\A t \in Threads : stack[t] = <<>>) => ~mInForEach)
    /\ [][mInForEach' # mInForEach =>
            \E t \in Threads :
                /\ stack[t] # <<>> /\ stack'[t] # <<>>
                /\ Len(stack'[t]) = Len(stack[t])
                /\ Par(Top(t).d)
                /\ \/ Top(t).pc = "launch" /\ mInForEach'
                   \/ Top(t).pc = "wait" /\ ~mInForEach']_vars

\* C9 witness: a parallel dispatch, with a sequential dispatch nested in one
\* of its kernels, has fully returned, and the flag is clear.
C9_Witness ==
    /\ \A t \in Threads : stack[t] = <<>>
    /\ ~mInForEach
    /\ \E d \in Dispatches : Par(d) /\ disp[d].done
    /\ \E d \in Dispatches : disp[d].parent # 0 /\ disp[d].path = "seq" /\ disp[d].done

\* C10: once a parallel dispatch has returned, every worker has made its
\* empty claim and left the callback, no activation of the dispatch is left,
\* and the kernel is never invoked for it again.
C10_Synchronous ==
    /\ [](\A d \in Dispatches :
            (Par(d) /\ disp[d].done) =>
                /\ disp[d].emptyClaims = Workers
                /\ NoFrame(d))
    /\ [][\A d \in Dispatches :
            (Par(d) /\ disp[d].done /\ d <= Len(disp')) =>
                calls'[d] = calls[d] /\ mtls'[d] = mtls[d]]_vars

\* C10 witness: a parallel dispatch over several slices has returned.
C10_Witness ==
    \E d \in Dispatches :
        /\ Par(d)
        /\ disp[d].done
        /\ mtls[d].mSliceNum > mCount + 1

\* Dispatch 1 is a parallel dispatch that has not returned.
ParallelRunning == Len(disp) = 1 /\ Par(1) /\ ~disp[1].done

\* Dispatch 1 is a parallel dispatch that has returned after every worker
\* made an empty claim and left the callback.
ParallelReturned ==
    /\ Len(disp) = 1
    /\ Par(1)
    /\ disp[1].done
    /\ disp[1].emptyClaims = Workers
    /\ \A t \in Threads : stack[t] = <<>>

\* C11: under fair scheduling every parallel dispatch returns, after every
\* worker has claimed an empty range and left its callback; and whatever the
\* worker count, slice size, extent and start of the sliced axis, claiming
\* again and again reaches an empty range. (A state has either a dispatch
\* or a sliced axis to claim, never both.)
C11_Termination ==
    (ParallelRunning \/ part # NoPart)
        ~> (ParallelReturned \/ part.extra >= 1)

\* C11 witness: a parallel dispatch whose clip starts above 0 has returned,
\* every worker having made its empty claim.
C11_Witness ==
    /\ ParallelReturned
    /\ ~disp[1].args.sc.null
    /\ mtls[1].xStart + mtls[1].yStart > 0
    /\ calls[1] # <<>>

\* max(1, extent / (count * 4)), integer division.
computeSliceSize(extent, count) == rsMax(1, extent \div (count * SliceFactor))

\* C12 as stated: the slice size of a launched dispatch is computed from the
\* extent of the sliced axis of the iteration domain.
C12_Original ==
    part.launched =>
        part.mSliceSize = computeSliceSize(part.axisEnd - part.axisStart, part.count)

\* C12 amended: the sliced axis is Y when the dimY of the buffer is above 1
\* and X otherwise; the slice size of a launched dispatch is max(1, dim /
\* (count * 4)) where dim is the dimension of the buffer along the sliced
\* axis, whatever the clip; it is at least 1.
C12_SliceSize ==
    part.launched =>
        LET al == part.args.aout
            dim == IF part.axis = "Y" THEN al.dimY ELSE al.dimX
        IN /\ part.axis = (IF al.dimY > 1 THEN "Y" ELSE "X")
           /\ part.mSliceSize = computeSliceSize(dim, part.count)
           /\ part.mSliceSize >= 1

\* C12 witness: a launched dispatch clipped on its sliced axis Y whose slice
\* size is above 1 and differs from the one the clipped extent would give;
\* a slice has been claimed.
C12_Witness ==
    /\ part.launched
    /\ part.axis = "Y"
    /\ part.axisStart > 0
    /\ part.mSliceSize > 1
    /\ part.mSliceSize # computeSliceSize(part.axisEnd - part.axisStart, part.count)
    /\ part.ranges # <<>>

\* Worker w holds a claimed slice of dispatch d: it is inside the loops of
\* the slice.
HoldsSlice(w, d) ==
    /\ stack[w] # <<>>
    /\ stack[w][1].kind = "worker"
    /\ stack[w][1].d = d
    /\ stack[w][1].pc \in {"call", "inkernel"}

\* C13: every change of the slice counter of a dispatch is one claim by one
\* worker: the counter grows by exactly one, and that worker alone moves,
\* either leaving the callback because the range derived from the prior
\* value, [start + prior*size, min(start + (prior+1)*size, end)), is empty,
\* or holding exactly that range. Two workers never hold the same slice
\* index, and every index held is below the counter.
C13_AtomicClaim ==
    /\ [][\A d \in 1..Len(mtls) :
            (d <= Len(mtls') /\ mtls'[d].mSliceNum # mtls[d].mSliceNum) =>
               LET m == mtls[d]
                   prior == m.mSliceNum
                   y == disp[d].path = "wc_xy"
                   st == (IF y THEN m.yStart ELSE m.xStart) + prior * m.mSliceSize
                   en == rsMin(st + m.mSliceSize, IF y THEN m.yEnd ELSE m.xEnd)
               IN /\ mtls'[d].mSliceNum = prior + 1
                  /\ \E w \in Workers :
                        /\ stack[w] # <<>>
                        /\ stack[w][1].d = d
                        /\ stack[w][1].pc = "claim"
                        /\ \A v \in Threads \ {w} : stack'[v] = stack[v]
                        /\ IF en <= st
                           THEN stack'[w] = <<>>
                           ELSE /\ stack'[w] # <<>>
                                /\ stack'[w][1].slice = prior
                                /\ stack'[w][1].lo = st
                                /\ stack'[w][1].hi = en]_vars
    /\ [](\A d \in Dispatches : \A w1 \in Workers : \A w2 \in Workers :
            (HoldsSlice(w1, d) /\ HoldsSlice(w2, d) /\ w1 # w2) =>
                /\ stack[w1][1].slice # stack[w2][1].slice
                /\ stack[w1][1].slice < mtls[d].mSliceNum)

\* C13 witness: two workers hold different slices of the same dispatch at
\* the same time.
C13_Witness ==
    \E d \in Dispatches : \E w1 \in Workers : \E w2 \in Workers :
        /\ w1 # w2
        /\ HoldsSlice(w1, d) /\ HoldsSlice(w2, d)
        /\ stack[w1][1].slice # stack[w2][1].slice
        /\ mtls[d].mSliceNum >= 2

\* C14: a dispatch whose slot holds a null kernel has an error recorded on
\* the context, makes no kernel invocation and does not fault.
C14_NullKernel ==
    \A d \in Dispatches :
        disp[d].args.kernelNull =>
            /\ rscError # "none"
            /\ calls[d] = <<>>
            /\ \A f \in Frames : f.d = d => f.pc # "fault"

\* The buffer a dispatch is bound to: the input allocation, or else the
\* output allocation.
BoundBuffer(a) == IF a.ain.null THEN a.aout ELSE a.ain

\* The clip leaves X (Y) alone: there is none, or its end bound is 0.
NoClipX(a) == a.sc.null \/ a.sc.xEnd = 0

NoClipY(a) == a.sc.null \/ a.sc.yEnd = 0

\* The values the invocations of dispatch d took at position i of their
\* coordinates (1 = x, 2 = y, 3 = z, 4 = array).
AxisValues(d, i) == {k[i] : k \in DOMAIN calls[d]}

\* C15: in a dispatch that gets past the early returns, an axis without a
\* clip runs over [0, dim) of the bound buffer with the end floored to 1; Z
\* and array run over [0, 1); and once such a dispatch of a non-null kernel
\* has returned, an unclipped axis of dimension 0 has taken exactly the
\* value 0.
C15_AxisFallback ==
    \A d \in Dispatches :
        Ran(d) =>
            LET a == disp[d].args
                b == BoundBuffer(a)
                m == mtls[d]
            IN /\ NoClipX(a) =>
                     m.xStart = 0 /\ m.xEnd = (IF b.dimX >= 1 THEN b.dimX ELSE 1)
               /\ NoClipY(a) =>
                     m.yStart = 0 /\ m.yEnd = (IF b.dimY >= 1 THEN b.dimY ELSE 1)
               /\ m.zStart = 0 /\ m.zEnd = 1
               /\ m.arrayStart = 0 /\ m.arrayEnd = 1
               /\ m.xEnd >= 1 /\ m.yEnd >= 1
               /\ (disp[d].done /\ ~a.kernelNull) =>
                     /\ (NoClipY(a) /\ b.dimY = 0) => AxisValues(d, 2) = {0}
                     /\ AxisValues(d, 3) = {0}
                     /\ AxisValues(d, 4) = {0}

\* C15 witness: a returned dispatch on a 1D buffer (dimY = 0) of more than
\* one element, given a clip record whose end bounds are 0 and whose xStart
\* is above 0: both axes fell back, and the kernel ran.
C15_Witness ==
    \E d \in Dispatches :
        /\ disp[d].done
        /\ ~disp[d].args.sc.null
        /\ disp[d].args.sc.xEnd = 0
        /\ disp[d].args.sc.xStart > 0
        /\ disp[d].args.sc.yEnd = 0
        /\ BoundBuffer(disp[d].args).dimY = 0
        /\ BoundBuffer(disp[d].args).dimX > 1
        /\ mtls[d].xStart = 0
        /\ calls[d] # <<>>

\* A clip is supplied for X (Y) and, clamped to the dimension of the bound
\* buffer, it is empty.
EmptyClipX(a) ==
    /\ ~NoClipX(a)
    /\ rsMin(BoundBuffer(a).dimX, a.sc.xStart) >= rsMin(BoundBuffer(a).dimX, a.sc.xEnd)

EmptyClipY(a) ==
    /\ ~NoClipY(a)
    /\ rsMin(BoundBuffer(a).dimY, a.sc.yStart) >= rsMin(BoundBuffer(a).dimY, a.sc.yEnd)

\* C16: a dispatch that gets to launching workers or invoking the kernel has
\* 0 <= start < end <= max(1, dim) on X and on Y, and start = 0, end = 1 on
\* Z and array; a dispatch with a supplied clip (end bound not 0) that is
\* empty once clamped never gets there: no invocation, no activation.
C16_ResolvedBounds ==
    \A d \in Dispatches :
        LET a == disp[d].args
            b == BoundBuffer(a)
            m == mtls[d]
        IN /\ Ran(d) =>
                 /\ 0 <= m.xStart /\ m.xStart < m.xEnd
                 /\ m.xEnd <= (IF b.dimX >= 1 THEN b.dimX ELSE 1)
                 /\ 0 <= m.yStart /\ m.yStart < m.yEnd
                 /\ m.yEnd <= (IF b.dimY >= 1 THEN b.dimY ELSE 1)
                 /\ m.zStart = 0 /\ m.zEnd = 1
                 /\ m.arrayStart = 0 /\ m.arrayEnd = 1
           /\ (EmptyClipX(a) \/ EmptyClipY(a)) =>
                 ~Ran(d) /\ calls[d] = <<>> /\ NoFrame(d)
           /\ (calls[d] # <<>> \/ ~NoFrame(d)) => Ran(d)

\* C16 witness: the kernel ran in a dispatch whose clip of X ends beyond
\* dimX, so the end was clamped.
C16_Witness ==
    \E d \in Dispatches :
        /\ Ran(d)
        /\ ~disp[d].args.sc.null
        /\ disp[d].args.sc.xEnd > BoundBuffer(disp[d].args).dimX
        /\ mtls[d].xStart = disp[d].args.sc.xStart
        /\ mtls[d].xEnd = BoundBuffer(disp[d].args).dimX
        /\ calls[d] # <<>>

\* Dispatch d is between setting and clearing the flag, the two taken as
\* steps of their own.
InSection(d) ==
    \E f \in Frames : f.d = d /\ f.kind = "foreach" /\ f.pc \in {"flagset", "wait"}

\* C17: with two threads dispatching at the same time, at most one dispatch
\* is between setting and clearing the flag, the flag is set while a worker
\* is in a callback, and two dispatches that have not returned are never
\* both on a parallel path.
C17_MutualExclusion ==
    /\ \A d1 \in Dispatches : \A d2 \in Dispatches :
          (InSection(d1) /\ InSection(d2)) => d1 = d2
    /\ (\E f \in Frames : f.kind = "worker") => mInForEach
    /\ \A d1 \in Dispatches : \A d2 \in Dispatches :
          (d1 # d2 /\ ~disp[d1].done /\ ~disp[d2].done) => ~(Par(d1) /\ Par(d2))

\* C18: every invocation made by wc_xy or wc_x with coordinates (x, y) was
\* passed the pointers base + rowStride*y + elementStride*x of the input
\* and of the output buffer.
C18_ParallelAddressing ==
    \A d \in Dispatches :
        Par(d) =>
            \A k \in DOMAIN calls[d] :
                /\ k[5] = mtls[d].yStrideIn * k[2] + mtls[d].eStrideIn * k[1]
                /\ k[6] = mtls[d].yStrideOut * k[2] + mtls[d].eStrideOut * k[1]

\* The flattened element index of the coordinates k in the dimensions of m.
FlatIndex(m, k) ==
    ((k[4] * m.dimZ + k[3]) * m.dimY + k[2]) * m.dimX + k[1]

\* C19: every invocation of the sequential path with coordinates (x, y, z,
\* array) was passed the pointers base + elementStride * (((array*dimZ +
\* z)*dimY + y)*dimX + x) of the input and of the output buffer.
C19_SequentialAddressing ==
    \A d \in Dispatches :
        disp[d].path = "seq" =>
            \A k \in DOMAIN calls[d] :
                /\ k[5] = mtls[d].eStrideIn * FlatIndex(mtls[d], k)
                /\ k[6] = mtls[d].eStrideOut * FlatIndex(mtls[d], k)

\* The steps of worker w inside one claimed slice are in order: the first
\* invocation after a claim is at the start of the slice, every invocation
\* is inside the slice, and the next one of the same slice is the next
\* coordinate. In Y-sliced mode the slice is the rows [lo, hi) over
\* [xStart, xEnd); in X-sliced mode it is the columns [lo, hi).
OrderedStep(w) ==
    LET f == stack[w][1]
        g == stack'[w][1]
        m == mtls[f.d]
        ymode == disp[f.d].path = "wc_xy"
    IN /\ (f.pc = "claim" /\ g.pc = "call") =>
             IF ymode THEN g.y = g.lo /\ g.x = m.xStart ELSE g.x = g.lo
       /\ f.pc = "call" =>
             IF ymode
             THEN f.lo <= f.y /\ f.y < f.hi /\ m.xStart <= f.x /\ f.x < m.xEnd
             ELSE f.lo <= f.x /\ f.x < f.hi
       /\ (f.pc = "call" /\ g.pc = "call") =>
             IF ymode
             THEN \/ g.y = f.y /\ g.x = f.x + 1
                  \/ g.y = f.y + 1 /\ f.x = m.xEnd - 1 /\ g.x = m.xStart
             ELSE g.x = f.x + 1

\* C20: within one claimed slice the invocations of a worker are in
\* strictly increasing coordinate order and stay inside the slice: rows in
\* increasing y with x from xStart to xEnd - 1 in each row, or x increasing
\* over the claimed columns only.
C20_SliceOrder ==
    [][\A w \in Workers :
          (/\ stack[w] # <<>> /\ stack'[w] # <<>>
           /\ stack[w][1].kind = "worker"
           /\ stack'[w] # stack[w]) => OrderedStep(w)]_vars

\* Coordinate a comes before coordinate b in the order of (array, z, y, x).
LexLess(a, b) ==
    \/ a[4] < b[4]
    \/ a[4] = b[4] /\ a[3] < b[3]
    \/ a[4] = b[4] /\ a[3] = b[3] /\ a[2] < b[2]
    \/ a[4] = b[4] /\ a[3] = b[3] /\ a[2] = b[2] /\ a[1] < b[1]

\* C21: every invocation of a sequential dispatch is on the first tuple, in
\* the order of (array, z, y, x), of the resolved domain that it has not
\* invoked yet; its activation is on the calling thread only; no tuple is
\* invoked twice, and when the dispatch of a kernel has returned every tuple
\* of the domain has been invoked exactly once.
C21_SequentialOrder ==
    /\ [][\A d \in Dispatches :
            (d <= Len(calls') /\ disp[d].path = "seq" /\ calls'[d] # calls[d]) =>
               \E c \in ClampedDomain(mtls[d]) \ Visited(d) :
                  /\ \A e \in ClampedDomain(mtls[d]) \ Visited(d) :
                        e = c \/ LexLess(c, e)
                  /\ Visited(d)' = Visited(d) \cup {c}]_vars
    /\ [](\A d \in Dispatches :
            disp[d].path = "seq" =>
                /\ \A t \in Threads : \A i \in 1..Len(stack[t]) :
                      stack[t][i].d = d => t = disp[d].caller
                /\ \A c \in Visited(d) : CoordCount(d, c) = 1
                /\ (disp[d].done /\ ~disp[d].args.kernelNull) =>
                      Visited(d) = ClampedDomain(mtls[d]))

\* C21 witness: a sequential dispatch over two rows of two columns has
\* returned after four invocations.
C21_Witness ==
    \E d \in Dispatches :
        /\ disp[d].path = "seq"
        /\ disp[d].done
        /\ mtls[d].xEnd - mtls[d].xStart = 2
        /\ mtls[d].yEnd - mtls[d].yStart = 2
        /\ Cardinality(Visited(d)) = 4

\* The launch struct without its slice counter and slice size.
Resolved(m) == [m EXCEPT !.mSliceNum = 0, !.mSliceSize = 0]

\* Dispatch d has a worker in its callback.
HasWorker(d) == \E f \in Frames : f.kind = "worker" /\ f.d = d

\* C22: a call makes a launch struct of its own, with the slice counter 0
\* and the bounds resolved from its own arguments, whatever other dispatches
\* are running or have run; afterwards the bounds and strides never change,
\* the slice size changes only at the launch, before any worker runs, and
\* the slice counter changes only by the claim of a worker of that dispatch.
C22_FreshState ==
    [][/\ Len(mtls') = Len(mtls) + 1 =>
             LET d == Len(mtls')
                 a == disp'[d].args
             IN /\ mtls'[d].mSliceNum = 0
                /\ disp'[d].path \in {"seq", "wc_xy", "wc_x"} =>
                      Resolved(mtls'[d]) = Resolved(FillMtls(a))
                /\ \A e \in 1..Len(mtls) : mtls'[e] = mtls[e]
       /\ \A d \in 1..Len(mtls) :
             d <= Len(mtls') =>
                /\ Resolved(mtls'[d]) = Resolved(mtls[d])
                /\ mtls'[d].mSliceSize # mtls[d].mSliceSize =>
                      /\ ~HasWorker(d)
                      /\ mtls[d].mSliceNum = 0
                      /\ \E f \in Frames : f.d = d /\ f.pc = "flagset"
                /\ mtls'[d].mSliceNum # mtls[d].mSliceNum =>
                      /\ \E f \in Frames : f.kind = "worker" /\ f.d = d /\ f.pc = "claim"
                      /\ mtls'[d].mSliceSize = mtls[d].mSliceSize]_vars

\* C22 witness: two dispatches are on a parallel path at the same time, the
\* first with slices claimed and workers running, the second with its own
\* counter still 0.
C22_Witness ==
    /\ Len(mtls) = 2
    /\ Par(1) /\ Par(2)
    /\ HasWorker(1)
    /\ mtls[1].mSliceNum >= 2
    /\ ~disp[2].done
    /\ mtls[2].mSliceNum = 0

\* The byte offset o handed to a kernel of dispatch d lies inside a buffer
\* of the given element and row stride.
InsideBuffer(d, o, eStride, yStride) ==
    /\ 0 <= o
    /\ o < yStride * rsMax(1, mtls[d].dimY)
    /\ disp[d].path = "wc_x" => o < eStride * mtls[d].dimX

\* C23: every invocation of a parallel dispatch was handed pointers inside
\* the input and the output buffer.
C23_ParallelInBounds ==
    \A d \in Dispatches :
        Par(d) =>
            \A k \in DOMAIN calls[d] :
                /\ mtls[d].hasIn =>
                      InsideBuffer(d, k[5], mtls[d].eStrideIn, mtls[d].yStrideIn)
                /\ mtls[d].hasOut =>
                      InsideBuffer(d, k[6], mtls[d].eStrideOut, mtls[d].yStrideOut)

\* The number of non-empty slices of parallel dispatch d: its sliced range
\* cut into pieces of the slice size, the last one possibly shorter.
NonEmptySlices(d) ==
    LET m == mtls[d]
        y == disp[d].path = "wc_xy"
        ext == IF y THEN m.yEnd - m.yStart ELSE m.xEnd - m.xStart
    IN (ext + m.mSliceSize - 1) \div m.mSliceSize

\* C24: in a launched parallel dispatch with N non-empty slices, a claim of
\* an index below N leaves the claimer holding that slice and a claim of an
\* index from N on is empty and is the claimer's last; the number of workers
\* that have left equals the number of claims from N on; and when the
\* dispatch has returned every worker has left and the counter is N + W.
C24_ClaimAccounting ==
    /\ [](\A d \in Dispatches :
            (Par(d) /\ (HasWorker(d) \/ disp[d].done)) =>
                LET N == NonEmptySlices(d)
                    over == IF mtls[d].mSliceNum > N THEN mtls[d].mSliceNum - N ELSE 0
                IN /\ Cardinality(disp[d].emptyClaims) = over
                   /\ disp[d].emptyClaims \subseteq Workers
                   /\ \A w \in disp[d].emptyClaims : stack[w] = <<>>
                   /\ disp[d].done => mtls[d].mSliceNum = N + mCount)
    /\ [][\A d \in 1..Len(mtls) :
            (d <= Len(mtls') /\ mtls'[d].mSliceNum # mtls[d].mSliceNum) =>
               \E w \in Workers :
                  /\ stack[w] # <<>> /\ stack[w][1].d = d
                  /\ stack'[w] # stack[w]
                  /\ IF mtls[d].mSliceNum < NonEmptySlices(d)
                     THEN /\ stack'[w] # <<>>
                          /\ stack'[w][1].slice = mtls[d].mSliceNum
                          /\ stack'[w][1].pc = "call"
                          /\ disp'[d].emptyClaims = disp[d].emptyClaims
                     ELSE /\ stack'[w] = <<>>
                          /\ w \notin disp[d].emptyClaims
                          /\ disp'[d].emptyClaims = disp[d].emptyClaims \cup {w}]_vars

\* C24 witness: a parallel dispatch of two non-empty slices has returned and
\* its counter is two plus the number of workers, which is above one.
C24_Witness ==
    \E d \in Dispatches :
        /\ Par(d)
        /\ disp[d].done
        /\ NonEmptySlices(d) = 2
        /\ mCount >= 2
        /\ mtls[d].mSliceNum = 2 + mCount

\* C25: a dispatch on a buffer that is handed a clip record whose xEnd is 0
\* is not stopped by X, resolves X to [0, max(1, dimX)) whatever the
\* record's xStart, and once it has returned its kernel has been given
\* every x of that range and no other; likewise for yEnd = 0 and Y.
C25_ZeroEndNoClip ==
    \A d \in Dispatches :
        LET a == disp[d].args
            b == BoundBuffer(a)
            m == mtls[d]
            ran == disp[d].done /\ ~a.kernelNull
        IN (HasBuffer(a) /\ ~a.sc.null) =>
              /\ a.sc.xEnd = 0 =>
                    /\ ~EmptyClipY(a) => Ran(d)
                    /\ Ran(d) => m.xStart = 0 /\ m.xEnd = rsMax(1, b.dimX)
                    /\ (Ran(d) /\ ran) =>
                          AxisValues(d, 1) = 0..(rsMax(1, b.dimX) - 1)
              /\ a.sc.yEnd = 0 =>
                    /\ ~EmptyClipX(a) => Ran(d)
                    /\ Ran(d) => m.yStart = 0 /\ m.yEnd = rsMax(1, b.dimY)
                    /\ (Ran(d) /\ ran) =>
                          AxisValues(d, 2) = 0..(rsMax(1, b.dimY) - 1)

\* C25 witness: a returned dispatch whose clip record has xEnd = 0 and an
\* xStart at or beyond dimX = 2, and whose kernel was given x = 0 and x = 1.
C25_Witness ==
    \E d \in Dispatches :
        /\ disp[d].done
        /\ ~disp[d].args.sc.null
        /\ disp[d].args.sc.xEnd = 0
        /\ BoundBuffer(disp[d].args).dimX = 2
        /\ disp[d].args.sc.xStart >= 2
        /\ AxisValues(d, 1) = {0, 1}

\* The clip record of dispatch d carries Z bounds, array bounds.
CarriesZ(d) == ~disp[d].args.sc.null /\ disp[d].args.sc.zEnd # 0

CarriesArray(d) == ~disp[d].args.sc.null /\ disp[d].args.sc.arrayEnd # 0

\* C26: every kernel invocation of every dispatch, on any path, has z = 0
\* and array index 0, and a dispatch past the early returns has the Z and
\* the array range [0, 1), also when its clip record carries other Z or
\* array bounds; every frame of a dispatch stands at z = 0, array <= 1.
C26_ZArrayFixed ==
    /\ \A d \in Dispatches :
          /\ \A k \in DOMAIN calls[d] : k[3] = 0 /\ k[4] = 0
          /\ Ran(d) =>
                /\ mtls[d].zStart = 0 /\ mtls[d].zEnd = 1
                /\ mtls[d].arrayStart = 0 /\ mtls[d].arrayEnd = 1
    /\ \A t \in Threads :
          \A i \in 1..Len(stack[t]) :
              stack[t][i].pc = "call" => stack[t][i].z = 0 /\ stack[t][i].ar = 0

\* C26 witness: a returned sequential dispatch whose clip record carries
\* the Z bounds [1, 2) and the array bounds [1, 2), and whose kernel ran.
C26_Witness ==
    \E d \in Dispatches :
        /\ disp[d].done
        /\ disp[d].path = "seq"
        /\ CarriesZ(d) /\ disp[d].args.sc.zStart = 1
        /\ CarriesArray(d) /\ disp[d].args.sc.arrayStart = 1
        /\ calls[d] # <<>>
        /\ AxisValues(d, 3) = {0}
        /\ AxisValues(d, 4) = {0}

\* A returned parallel dispatch whose clip record carries Z bounds, and
\* whose kernel ran.
C26_ParallelReached ==
    \E d \in Dispatches :
        /\ disp[d].done /\ Par(d) /\ CarriesZ(d) /\ calls[d] # <<>>

\* The positions in the stack of thread t of its rsdScriptInvokeForEach
\* activations past the early returns.
ForEachAt(t) == {i \in 1..Len(stack[t]) : stack[t][i].kind = "foreach"}

\* The script that thread t had as its TLS script before the activation at
\* position i of its stack was called: that of the activation below, or
\* the thread's own (no script) when there is none.
ScriptBelow(t, i) ==
    LET below == {j \in ForEachAt(t) : j < i}
    IN IF below = {} THEN NoScript
       ELSE mtls[stack[t][CHOOSE j \in below : \A k \in below : k <= j].d].script

\* C27: the TLS script of a thread is the script of its innermost
\* rsdScriptInvokeForEach activation, its own when it has none; every
\* activation holds as oldTLS the script in force before it was called; a
\* call that returns early leaves every TLS alone, a returning activation
\* puts back the script in force before its call, and no step changes the
\* TLS of a thread other than by a call or a return on that thread (a
\* worker callback that starts or ends leaves the worker's TLS alone).
C27_TlsRestored ==
    /\ [](\A t \in Threads :
            /\ tls[t] = ScriptBelow(t, Len(stack[t]) + 1)
            /\ \A i \in ForEachAt(t) :
                  /\ stack[t][i].oldTLS = ScriptBelow(t, i)
                  /\ stack[t][i].pc \in {"call", "inkernel"} =>
                        ScriptBelow(t, i + 1) = disp[stack[t][i].d].args.s)
    /\ [][\A t \in Threads :
            /\ (Len(stack'[t]) = Len(stack[t])) => tls'[t] = tls[t]
            /\ (Len(stack'[t]) < Len(stack[t]) /\ Top(t).kind = "foreach") =>
                  tls'[t] = Top(t).oldTLS
            /\ (Len(stack'[t]) < Len(stack[t]) /\ Top(t).kind # "foreach") =>
                  tls'[t] = tls[t]
            /\ (Len(stack'[t]) > Len(stack[t])) =>
                  IF stack'[t][Len(stack'[t])].kind = "foreach"
                  THEN /\ stack'[t][Len(stack'[t])].oldTLS = tls[t]
                       /\ tls'[t] = disp'[Len(disp')].args.s
                  ELSE tls'[t] = tls[t]]_vars

\* C27 witness: a dispatch made from inside a kernel of a sequential
\* dispatch of another script has returned, the kernel that made it has
\* not, and the thread's TLS script is again that of the outer dispatch.
C27_Witness ==
    \E t \in Threads :
        /\ stack[t] # <<>>
        /\ Top(t).kind = "foreach"
        /\ Top(t).pc = "inkernel"
        /\ \E d \in Dispatches :
              /\ disp[d].parent = Top(t).d
              /\ disp[d].caller = t
              /\ disp[d].done
              /\ disp[d].path \in {"seq", "wc_xy", "wc_x"}
              /\ disp[d].args.s # disp[Top(t).d].args.s
        /\ tls[t] = disp[Top(t).d].args.s

\* ------------------------------------------------------- rsdScriptInit
\* The sections of the info file after dlopen ("vars", "funcs", "foreach",
\* "slots"): the tables each allocates when its count is above 0, and the
\* section that follows.
SectionTables(sec) ==
    CASE sec = "vars" -> {"mFieldIsObject", "mFieldAddress"}
      [] sec = "funcs" -> {"mInvokeFunctions"}
      [] sec = "foreach" -> {"mForEachSignatures", "mForEachFunctions"}
      [] sec = "slots" -> {}

SectionAfter(sec) ==
    CASE sec = "vars" -> "funcs"
      [] sec = "funcs" -> "foreach"
      [] sec = "foreach" -> "slots"
      [] sec = "slots" -> "success"

InitTh(t) == ini.th[t]

SetInit(t, r) == [ini EXCEPT !.th[t] = r]

OthersUnchanged ==
    UNCHANGED <<mCount, mInForEach, rscError, tls, stack, mtls, disp, calls,
                mem, part, gvar, cbw>>

\* pthread_mutex_lock(&rsdgInitMutex): the caller goes on once it holds it.
init_lock(t) ==
    /\ InitTh(t).pc = "idle"
    /\ ini.mutex = 0
    /\ ini' = [ini EXCEPT !.mutex = t,
                          !.th[t].locks = @ + 1,
                          !.th[t].pc = "calloc"]
    /\ OthersUnchanged

\* drv = calloc(...); if (drv == NULL) goto error; script->mHal.drv = drv
init_calloc(t) ==
    /\ InitTh(t).pc = "calloc"
    /\ \E ok \in BOOLEAN :
          ini' = SetInit(t, IF ok
                            THEN [InitTh(t) EXCEPT !.drv = TRUE, !.halDrv = TRUE,
                                                   !.pc = "fopen"]
                            ELSE [InitTh(t) EXCEPT !.pc = "error"])
    /\ OthersUnchanged

\* fp = fopen(scriptInfoName, "r"); if (!fp) goto error
init_fopen(t) ==
    /\ InitTh(t).pc = "fopen"
    /\ \E ok \in BOOLEAN :
          ini' = SetInit(t, IF ok
                            THEN [InitTh(t) EXCEPT !.fp = "open", !.pc = "dlopen"]
                            ELSE [InitTh(t) EXCEPT !.pc = "error"])
    /\ OthersUnchanged

\* scriptSO = dlopen(...); if (scriptSO == NULL) goto error;
\* drv->mScriptSO = scriptSO, and the dlsym of root, init, .rs.dtor
init_dlopen(t) ==
    /\ InitTh(t).pc = "dlopen"
    /\ \E ok \in BOOLEAN :
          ini' = SetInit(t, IF ok
                            THEN [InitTh(t) EXCEPT !.so = "open", !.pc = "vars"]
                            ELSE [InitTh(t) EXCEPT !.pc = "error"])
    /\ OthersUnchanged

\* One section of the info file: the count line is bad (goto error before
\* any table of the section), the count is 0, or the tables are allocated
\* and then either every line is good or one is bad (goto error). The
\* object slot section allocates nothing; after it mBoundAllocs is
\* allocated when varCount > 0.
init_section(t) ==
    /\ InitTh(t).pc \in {"vars", "funcs", "foreach", "slots"}
    /\ LET r == InitTh(t)
           sec == r.pc
           bound == IF sec = "slots" /\ "mFieldAddress" \in r.tables
                    THEN {"mBoundAllocs"} ELSE {}
       IN \E out \in {"badcount", "zero", "badline", "good"} :
             ini' = SetInit(t,
                CASE out = "badcount" -> [r EXCEPT !.pc = "error"]
                  [] out = "zero" ->
                       [r EXCEPT !.pc = SectionAfter(sec),
                                 !.tables = @ \cup bound]
                  [] out = "badline" ->
                       [r EXCEPT !.pc = "error",
                                 !.tables = @ \cup SectionTables(sec)]
                  [] out = "good" ->
                       [r EXCEPT !.pc = SectionAfter(sec),
                                 !.tables = @ \cup SectionTables(sec) \cup bound])
    /\ OthersUnchanged

\* fclose(fp); pthread_mutex_unlock(&rsdgInitMutex); return true
init_success(t) ==
    /\ InitTh(t).pc = "success"
    /\ ini' = [ini EXCEPT !.mutex = 0,
                          !.th[t].fp = "closed",
                          !.th[t].unlocks = @ + 1,
                          !.th[t].ret = "true",
                          !.th[t].pc = "returned"]
    /\ OthersUnchanged

\* error: fclose(fp). fp is NULL when calloc or fopen failed: fclose(NULL)
\* is undefined; the caller faults there or the call comes back.
init_error_fclose(t) ==
    /\ InitTh(t).pc = "error"
    /\ IF InitTh(t).fp = "open"
       THEN ini' = SetInit(t, [InitTh(t) EXCEPT !.fp = "closed", !.pc = "unlock"])
       ELSE \E fault \in BOOLEAN :
               ini' = SetInit(t, [InitTh(t) EXCEPT
                                     !.pc = IF fault THEN "fault" ELSE "unlock"])
    /\ OthersUnchanged

\* init_error_fclose with fclose(NULL) coming back always.
init_error_fclose_checked(t) ==
    /\ InitTh(t).pc = "error"
    /\ ini' = SetInit(t, [InitTh(t) EXCEPT
                             !.fp = IF @ = "open" THEN "closed" ELSE @,
                             !.pc = "unlock"])
    /\ OthersUnchanged

\* error: pthread_mutex_unlock(&rsdgInitMutex)
init_error_unlock(t) ==
    /\ InitTh(t).pc = "unlock"
    /\ ini' = [ini EXCEPT !.mutex = 0,
                          !.th[t].unlocks = @ + 1,
                          !.th[t].pc = "cleanup"]
    /\ OthersUnchanged

\* error: if (drv) { delete[] of the tables; dlclose; free(drv); }
\* script->mHal.drv = NULL; return false
init_error_cleanup(t) ==
    /\ InitTh(t).pc = "cleanup"
    /\ ini' = SetInit(t, [InitTh(t) EXCEPT
                             !.tables = IF InitTh(t).drv THEN {} ELSE @,
                             !.so = IF InitTh(t).drv /\ @ = "open"
                                    THEN "closed" ELSE @,
                             !.drv = FALSE,
                             !.halDrv = FALSE,
                             !.ret = "false",
                             !.pc = "returned"])
    /\ OthersUnchanged

NextInit ==
    \E t \in InitCallers :
        \/ init_lock(t)
        \/ init_calloc(t)
        \/ init_fopen(t)
        \/ init_dlopen(t)
        \/ init_section(t)
        \/ init_success(t)
        \/ init_error_fclose(t)
        \/ init_error_unlock(t)
        \/ init_error_cleanup(t)

\* The context with no dispatch made and none to come.
QuietDispatcher ==
    /\ mCount = 1
    /\ mInForEach = FALSE
    /\ rscError = "none"
    /\ tls = [t \in Threads |-> NoScript]
    /\ stack = [t \in Threads |-> <<>>]
    /\ mtls = <<>>
    /\ disp = <<>>
    /\ calls = <<>>
    /\ mem = <<>>
    /\ part = NoPart

InitScripts ==
    /\ QuietDispatcher
    /\ ini = NoInit
    /\ gvar = NoVar
    /\ cbw = NoWrappers

\* Concurrent initialisations of scripts, one per caller.
SpecInit == InitScripts /\ [][NextInit]_vars

\* The call of caller t has ended: it returned, or it faulted.
InitEnded(t) == ini.th[t].pc \in {"returned", "fault"}

\* The call of caller t took an error exit.
InitFailed(t) ==
    ini.th[t].pc \in {"error", "fault", "unlock", "cleanup"} \/ ini.th[t].ret = "false"

\* C28: at most one caller is between the lock and the unlock of
\* rsdgInitMutex; a call that has ended has locked once and unlocked once
\* and does not hold the mutex; and an ended call that failed has returned
\* false with script->mHal.drv NULL, the DrvScript and every table freed and
\* the library closed.
C28_InitMutex ==
    /\ \A t, u \in InitCallers :
          (t # u /\ ini.th[t].locks > ini.th[t].unlocks) =>
              ini.th[u].locks = ini.th[u].unlocks
    /\ \A t \in InitCallers :
          InitEnded(t) =>
             /\ ini.mutex # t
             /\ ini.th[t].locks = 1 /\ ini.th[t].unlocks = 1
             /\ InitFailed(t) =>
                   /\ ini.th[t].ret = "false"
                   /\ ~ini.th[t].halDrv
                   /\ ~ini.th[t].drv
                   /\ ini.th[t].tables = {}
                   /\ ini.th[t].so # "open"

\* C28 restricted to the calls whose info file was opened: those do end as
\* the claim says.
C28_WithOpenFile ==
    \A t \in InitCallers :
        (ini.th[t].fp # "null" /\ ini.th[t].pc = "returned") =>
             /\ ini.mutex # t
             /\ ini.th[t].locks = 1 /\ ini.th[t].unlocks = 1
             /\ ini.th[t].fp = "closed"
             /\ ini.th[t].ret = "false" =>
                   /\ ~ini.th[t].halDrv /\ ~ini.th[t].drv
                   /\ ini.th[t].tables = {} /\ ini.th[t].so # "open"

\* ------------------------------------ rsdScriptSetGlobalVarWithElemDims
\* The objects an element of the variable may refer to; 0 is a null pointer.
Objs == {1, 2}

ObjPtrs == {0} \cup Objs

\* The values of the variable: dims[0] elements.
VarValues == UNION {[1..n -> ObjPtrs] : n \in 0..MaxDims0}

\* The number of elements of value v that refer to object o.
Occurrences(v, o) == Cardinality({i \in DOMAIN v : v[i] = o})

\* elem->incRefs(ptr) on an element that refers to object o: one more
\* reference to o; nothing for a null pointer.
incRefs(rc, o) == IF o = 0 THEN rc ELSE [rc EXCEPT ![o] = @ + 1]

\* elem->decRefs(ptr): one reference to o fewer.
decRefs(rc, o) == IF o = 0 THEN rc ELSE [rc EXCEPT ![o] = @ - 1]

\* NextPhase with the decrement loop ahead of the increment loop.
NextPhase_decfirst(ph, n) ==
    IF n = 0 THEN "copy"
    ELSE CASE ph = "enter" -> "dec"
           [] ph = "dec" -> "inc"
           [] ph = "inc" -> "copy"

\* The loops of the function in the order of its text: after the entry the
\* increment loop, then the decrement loop, then the memcpy; with
\* dims[0] == 0 neither loop has a pass.
NextPhase(ph, n) ==
    IF n = 0 THEN "copy"
    ELSE CASE ph = "enter" -> "inc"
           [] ph = "inc" -> "dec"
           [] ph = "dec" -> "copy"

\* A call about to start: the slot's address may be null; the slot holds
\* dest and the caller hands in data of the same number of elements;
\* dimLength / sizeof(int) is 1 or 2; every object has as many references
\* as dest has elements that refer to it plus at most one held elsewhere,
\* and an object that data refers to is alive.
InitVar ==
    /\ QuietDispatcher
    /\ ini = NoInit
    /\ cbw = NoWrappers
    /\ \E dest \in VarValues, data \in VarValues, ext \in [Objs -> 0..1],
          isNull \in BOOLEAN, dl \in 1..2 :
          /\ Len(dest) = Len(data)
          /\ \A o \in Objs :
                Occurrences(data, o) > 0 => Occurrences(dest, o) + ext[o] > 0
          /\ gvar = [pc |-> "enter", destNull |-> isNull, dimLength |-> dl,
                     dest |-> dest, data |-> data, old |-> dest,
                     rc |-> [o \in Objs |-> Occurrences(dest, o) + ext[o]],
                     rc0 |-> [o \in Objs |-> Occurrences(dest, o) + ext[o]],
                     i |-> 0, incs |-> 0, decs |-> 0,
                     destroyed |-> {}, stale |-> FALSE]

VarUnchanged ==
    UNCHANGED <<mCount, mInForEach, rscError, tls, stack, mtls, disp, calls,
                mem, part, ini, cbw>>

\* The entry: a null field address returns at once; more than one
\* dimension goes past both loops to the memcpy.
setvar_enter ==
    /\ gvar.pc = "enter"
    /\ gvar' = [gvar EXCEPT
                  !.pc = IF gvar.destNull THEN "done"
                         ELSE IF gvar.dimLength # 1 THEN "copy"
                         ELSE NextPhase("enter", Len(gvar.data)),
                  !.i = 0]
    /\ VarUnchanged

\* One pass of the increment loop on data; a reference taken on an object
\* that was destroyed is a use of a dangling pointer.
setvar_inc ==
    /\ gvar.pc = "inc"
    /\ LET o == gvar.data[gvar.i + 1]
           last == gvar.i + 1 = Len(gvar.data)
       IN gvar' = [gvar EXCEPT
                     !.rc = incRefs(@, o),
                     !.incs = @ + 1,
                     !.stale = @ \/ o \in gvar.destroyed,
                     !.i = IF last THEN 0 ELSE @ + 1,
                     !.pc = IF last THEN NextPhase("inc", Len(gvar.data)) ELSE @]
    /\ VarUnchanged

\* One pass of the decrement loop on the destination; an object whose last
\* reference goes is destroyed.
setvar_dec ==
    /\ gvar.pc = "dec"
    /\ LET o == gvar.dest[gvar.i + 1]
           last == gvar.i + 1 = Len(gvar.dest)
           rc1 == decRefs(gvar.rc, o)
       IN gvar' = [gvar EXCEPT
                     !.rc = rc1,
                     !.decs = @ + 1,
                     !.destroyed = IF o # 0 /\ rc1[o] = 0 THEN @ \cup {o} ELSE @,
                     !.i = IF last THEN 0 ELSE @ + 1,
                     !.pc = IF last THEN NextPhase("dec", Len(gvar.data)) ELSE @]
    /\ VarUnchanged

\* memcpy(destPtr, data, dataLength)
setvar_copy ==
    /\ gvar.pc = "copy"
    /\ gvar' = [gvar EXCEPT !.dest = gvar.data, !.pc = "done"]
    /\ VarUnchanged

NextVar == setvar_enter \/ setvar_inc \/ setvar_dec \/ setvar_copy

\* One call of rsdScriptSetGlobalVarWithElemDims on one slot.
SpecVar == InitVar /\ [][NextVar]_vars

\* The call is on a slot with an address and with a single dimension.
SingleDim == gvar.pc # "none" /\ ~gvar.destNull /\ gvar.dimLength = 1

\* C29: in a call with a single dimension no reference is dropped before
\* all dims[0] references have been taken, the destination keeps its old
\* value until both loops are over and then holds data, an object that both
\* the old value and data refer to always has a reference and is never
\* destroyed, no reference is taken on a destroyed object, and at the end
\* every object has lost the references of the old value and gained those
\* of data; with a null field address nothing changes.
C29_IncBeforeDec ==
    /\ SingleDim =>
          /\ gvar.decs > 0 => gvar.incs = Len(gvar.data)
          /\ gvar.pc # "done" => gvar.dest = gvar.old
          /\ gvar.pc = "done" =>
                /\ gvar.dest = gvar.data
                /\ gvar.incs = Len(gvar.data) /\ gvar.decs = Len(gvar.old)
                /\ \A o \in Objs :
                      gvar.rc[o] = gvar.rc0[o] - Occurrences(gvar.old, o)
                                   + Occurrences(gvar.data, o)
          /\ \A o \in Objs :
                (Occurrences(gvar.old, o) > 0 /\ Occurrences(gvar.data, o) > 0) =>
                    gvar.rc[o] >= 1 /\ o \notin gvar.destroyed
          /\ ~gvar.stale
    /\ (gvar.pc # "none" /\ gvar.destNull) =>
          /\ gvar.dest = gvar.old
          /\ gvar.rc = gvar.rc0
          /\ gvar.incs = 0 /\ gvar.decs = 0

\* C29 witness: a finished call with a single dimension on two elements,
\* where an object whose only reference was the old value's is also in data.
C29_Witness ==
    /\ SingleDim
    /\ gvar.pc = "done"
    /\ Len(gvar.data) = 2
    /\ \E o \in Objs :
          /\ Occurrences(gvar.old, o) = 1
          /\ gvar.rc0[o] = 1
          /\ Occurrences(gvar.data, o) > 0
          /\ gvar.rc[o] >= 1

\* ------------------------------------- surface transaction listeners
\* The API levels from which the bindings register a listener.
ApiOnComplete == 29

ApiOnCommit == 31

\* The device API levels: below both, between them, at the higher one.
ApiLevels == {ApiOnComplete - 1, ApiOnComplete, ApiOnCommit}

\* The Java listener objects handed to the bindings.
Listeners == {1, 2}

\* The binding of kind k registers on a device of API level api.
Registers(api, k) ==
    IF k = "complete" THEN api >= ApiOnComplete ELSE api >= ApiOnCommit

\* new OnCompleteCallbackWrapper(env, callback) (or OnCommit): the wrapper
\* holds a global reference to the listener and is handed to the platform
\* as the context of transactionCallbackThunk.
NewWrapper(k, l) ==
    [kind |-> k, listener |-> l, state |-> "registered", globalRef |-> TRUE,
     invoked |-> 0, deleted |-> 0]

InitWrappers ==
    /\ QuietDispatcher
    /\ ini = NoInit
    /\ gvar = NoVar
    /\ \E api \in ApiLevels : cbw = [NoWrappers EXCEPT !.api = api]

WrappersUnchanged ==
    UNCHANGED <<mCount, mInForEach, rscError, tls, stack, mtls, disp, calls,
                mem, part, ini, gvar>>

\* One call of a binding of kind k with listener l: on a device below the
\* API level of the binding nothing is created.
SetListener(k, l) ==
    /\ Len(cbw.jni) < MaxRegs
    /\ cbw' = [cbw EXCEPT
                 !.jni = Append(@, [kind |-> k, listener |-> l]),
                 !.ws = IF Registers(cbw.api, k)
                        THEN Append(@, NewWrapper(k, l)) ELSE @,
                 !.completedInfo = @ \/ (k = "complete" /\ Registers(cbw.api, k)),
                 !.committedInfo = @ \/ (k = "commit" /\ Registers(cbw.api, k))]
    /\ WrappersUnchanged

nTransactionSetOnComplete(l) == SetListener("complete", l)

nTransactionSetOnCommit(l) == SetListener("commit", l)

\* The platform fires the callback of a registered context, once:
\* transactionCallbackThunk runs listener->callback(stats), which calls the
\* Java listener's method.
transactionCallbackThunk_callback(w) ==
    /\ w \in DOMAIN cbw.ws
    /\ cbw.ws[w].state = "registered"
    /\ cbw' = [cbw EXCEPT !.ws[w].state = "called",
                          !.ws[w].invoked = @ + 1]
    /\ WrappersUnchanged

\* transactionCallbackThunk that returns without `delete listener`.
transactionCallbackThunk_delete_leak(w) ==
    /\ w \in DOMAIN cbw.ws
    /\ cbw.ws[w].state = "called"
    /\ cbw' = [cbw EXCEPT !.ws[w].state = "returned"]
    /\ WrappersUnchanged

\* transactionCallbackThunk, `delete listener`: the destructor drops the
\* global reference, and the thunk returns.
transactionCallbackThunk_delete(w) ==
    /\ w \in DOMAIN cbw.ws
    /\ cbw.ws[w].state = "called"
    /\ cbw' = [cbw EXCEPT !.ws[w].state = "returned",
                          !.ws[w].globalRef = FALSE,
                          !.ws[w].deleted = @ + 1]
    /\ WrappersUnchanged

NextWrappers ==
    \/ \E l \in Listeners : nTransactionSetOnComplete(l)
    \/ \E l \in Listeners : nTransactionSetOnCommit(l)
    \/ \E w \in 1..MaxRegs : transactionCallbackThunk_callback(w)
    \/ \E w \in 1..MaxRegs : transactionCallbackThunk_delete(w)

\* Registrations and the platform firing each registered callback once, the
\* thunks of different wrappers interleaved.
SpecWrappers == InitWrappers /\ [][NextWrappers]_vars

\* The calls of the bindings that register on this device, in order.
RegisteringCalls == SelectSeq(cbw.jni, LAMBDA c : Registers(cbw.api, c.kind))

\* C30: there is one wrapper per registering call, of its kind and for its
\* listener; a wrapper not yet fired has invoked nothing and holds its
\* global reference; once its thunk has called the listener it has invoked
\* it exactly once and still holds the reference; once the thunk has
\* returned it has invoked the listener exactly once and has been deleted
\* exactly once, the reference dropped; and a step never deletes a wrapper
\* that has not called its listener, never deletes one twice and never
\* calls a listener through a deleted wrapper.
C30_OneShot ==
    /\ [](/\ Len(cbw.ws) = Len(RegisteringCalls)
          /\ \A w \in DOMAIN cbw.ws :
                LET r == cbw.ws[w]
                IN /\ r.kind = RegisteringCalls[w].kind
                   /\ r.listener = RegisteringCalls[w].listener
                   /\ r.state = "registered" =>
                         r.invoked = 0 /\ r.deleted = 0 /\ r.globalRef
                   /\ r.state = "called" =>
                         r.invoked = 1 /\ r.deleted = 0 /\ r.globalRef
                   /\ r.state = "returned" =>
                         r.invoked = 1 /\ r.deleted = 1 /\ ~r.globalRef)
    /\ [][\A w \in DOMAIN cbw.ws :
            /\ cbw'.ws[w].deleted # cbw.ws[w].deleted =>
                  /\ cbw.ws[w].invoked = 1 /\ cbw.ws[w].deleted = 0
                  /\ cbw'.ws[w].deleted = 1 /\ cbw'.ws[w].invoked = 1
            /\ cbw'.ws[w].invoked # cbw.ws[w].invoked =>
                  /\ cbw.ws[w].invoked = 0 /\ cbw.ws[w].deleted = 0
                  /\ cbw'.ws[w].invoked = 1 /\ cbw'.ws[w].globalRef]_vars

\* C30 witness: an onComplete and an onCommit registration of the same
\* listener have both fired and returned, each wrapper deleted once, while
\* a third registration has not fired yet.
C30_Witness ==
    \E w1, w2, w3 \in DOMAIN cbw.ws :
        /\ cbw.ws[w1].kind = "complete" /\ cbw.ws[w1].state = "returned"
        /\ cbw.ws[w2].kind = "commit" /\ cbw.ws[w2].state = "returned"
        /\ cbw.ws[w1].listener = cbw.ws[w2].listener
        /\ cbw.ws[w1].deleted = 1 /\ cbw.ws[w2].deleted = 1
        /\ cbw.ws[w3].state = "registered"

====
